---- MODULE Spec2Model ----
(***************************************************************************)
(* es-research: sampling, bounded-concurrency analysis and aggregation.    *)
(*                                                                         *)
(* The specifications share this module, each driving its own group of    *)
(* variables and leaving the other groups at their idle values:            *)
(*   Spec          ESGuardAnalyzer.analyzeFiles / analyzeProject           *)
(*   SpecSelect    fetch main -> searchNextJSProjects -> validation ->     *)
(*                 sample                                                  *)
(*   SpecMain      the per-project loop of the analysis main               *)
(*   SpecAgg       aggregateProjectStats applied to file results           *)
(*   SpecSummarize summarizeIssues, over ESGuardIssues and over Violations *)
(*   SpecAnalyze   Spec, or one call of analyzeWithCustomConfig            *)
(*   SpecSummary   generateAnalysisSummary applied to results and errors   *)
(*   SpecStats     calculateConfidenceInterval, calculateRequiredSampleSize*)
(*   SpecConfig    validateConfig applied to a configuration               *)
(*   SpecRetry     one call of retry around a function that may fail       *)
(*   SpecParse     parseRepositoryName applied to a full name              *)
(*   SpecProject   one pass of the analysis main loop over one project     *)
(*   SpecBatch     one call of filterValidNextJSProjects                   *)
(*   SpecTemp      the temp directories of the analyses analyzeFiles runs  *)
(*   SpecLive      Spec with every concurrency validateConfig lets through *)
(*                 and with fair timers and analyses                       *)
(***************************************************************************)
EXTENDS Integers, Sequences, FiniteSets, TLC

VARIABLES
    \* ---- ESGuardAnalyzer.analyzeFiles / analyzeProject
    files,          \* the input list (distinct FileToAnalyze objects)
    concurrency,    \* the concurrency argument
    queue,          \* const queue = [...files]
    running,        \* const running = new Set<FileToAnalyze>()
    results,        \* const results: FileAnalysisResult[]
    rpc,            \* where the analyzeFiles coroutine is
    executing,      \* files whose performAnalysis call has not finished
    analysis,       \* the analysis block analyzeProject returns
    statistics,     \* the statistics block analyzeProject returns
    \* ---- fetch main / GitHubClient.searchNextJSProjects
    limit,          \* config.research.sampleSize
    spc,            \* where the fetch main is
    strategyIdx,    \* index of the next strategy of the for-of loop
    projects,       \* the Map<string, GitHubRepository>, in insertion order
    projectsDup,    \* the same Map in a run whose strategies return every record twice
    warnings,       \* number of "Strategy failed" warnings logged
    invoked,        \* outcome of each strategy invoked so far, in call order
    firstSeen,      \* full_name -> the first record any strategy returned for it
    validations,    \* full_name -> result of validateNextJSProject, this batch
    batchStart,     \* i of the batch loop of filterValidNextJSProjects
    validProjects,  \* validProjects of filterValidNextJSProjects
    found,          \* what searchNextJSProjects returned to main
    foundDup,       \* what it returned in the duplicated run
    sample,         \* sampledProjects
    exitCode,       \* process exit code of the fetch main
    \* ---- analysis main loop
    mvariant,       \* which of the two analysis mains runs
    mpc,            \* where the analysis main is
    toAnalyze,      \* projectsToAnalyze.length
    mi,             \* loop index i
    mresults,       \* results: ProjectAnalysisResult[]
    merrors,        \* errors: AnalysisError[]
    attempted,      \* number of projects whose analyzeProject was called
    overview,       \* summary.overview of generateAnalysisSummary
    mexit,          \* process exit code of the analysis main
    \* ---- aggregateProjectStats
    aggInput,       \* the FileAnalysisResult list passed in
    aggStats,       \* the returned ProjectStatistics, or NoStats
    \* ---- pure functions applied to one argument
    input,          \* the argument of the call
    output,         \* what the call came to, or NotCalled
    \* ---- ESGuardAnalyzer.analyzeWithCustomConfig (argument in input, result in output)
    cpc,            \* where the call is
    pending,        \* the CompatibilityResult held, or the message of the error caught
    cwarnings,      \* number of "Error cleaning up temp directory" warnings logged
    \* ---- utils retry (arguments in input, outcome in output)
    rtpc,           \* where the call is
    attempt,        \* let attempt of the for loop
    fnCalls,        \* number of times fn was invoked
    fnLog,          \* how each settled invocation of fn ended, in call order
    delays,         \* the argument of each sleep awaited, in call order
    \* ---- GitHubClient.filterValidNextJSProjects on its own (arguments in input)
    bpc,            \* where the call is
    bi,             \* let i of the batch loop
    bcalls,         \* the projects validateNextJSProject was called for, in call order
    bsettled,       \* project -> the validation its promise resolved with
    bvalid,         \* validProjects
    bsleeps,        \* number of sleep(2000) calls awaited
    \* ---- runESGuard / performAnalysis of the files analyzeFiles starts
    \*      (arguments in input)
    tnow,           \* Date.now()
    tdir,           \* per started file: the number in its tempDir name
    tpc,            \* per started file: where its performAnalysis is
    tfs,            \* the temp directories on disk -> the files written in each
    tscanned        \* per started file: the files its checker call scanned

fileVars == <<files, concurrency, queue, running, results, rpc, executing,
              analysis, statistics>>
selVars  == <<limit, spc, strategyIdx, projects, projectsDup, warnings, invoked, firstSeen,
              validations, batchStart, validProjects, found, foundDup, sample,
              exitCode>>
mainVars == <<mvariant, mpc, toAnalyze, mi, mresults, merrors, attempted, overview, mexit>>
aggVars  == <<aggInput, aggStats>>
pureVars == <<input, output>>
customVars == <<cpc, pending, cwarnings>>
retryVars == <<rtpc, attempt, fnCalls, fnLog, delays>>
batchVars == <<bpc, bi, bcalls, bsettled, bvalid, bsleeps>>
tempVars == <<tnow, tdir, tpc, tfs, tscanned>>
extraVars == <<retryVars, batchVars, tempVars>>
vars     == <<fileVars, selVars, mainVars, aggVars, pureVars, customVars, extraVars>>

----------------------------------------------------------------------------
(* Bounds *)
MaxFiles == 3
MaxConcurrency == 3
MaxProjects == 3
MaxFilesWithIssues == 1
MaxStars == 2
MaxResults == 2
MaxLimit == 2
MaxIssues == 2
MaxAggFiles == 2

(* A value for an absent optional field (undefined) *)
Undefined == "undefined"
NoStats == [none |-> TRUE]
NoOverview == [none |-> TRUE]

----------------------------------------------------------------------------
(* Generic helpers *)

RECURSIVE SumSeq(_)
SumSeq(s) == IF s = <<>> THEN 0 ELSE Head(s) + SumSeq(Tail(s))

RECURSIVE Flatten(_)
Flatten(ss) == IF ss = <<>> THEN <<>> ELSE Head(ss) \o Flatten(Tail(ss))

Range(s) == {s[i] : i \in DOMAIN s}

Min(a, b) == IF a < b THEN a ELSE b

CountIn(s, P(_)) == Cardinality({i \in DOMAIN s : P(s[i])})

----------------------------------------------------------------------------
(* ESGuardIssue, IssueSummary, FileAnalysisResult *)

Severities == {"error", "warning", "info"}

Issue(cat, sev, typ) == [category |-> cat, severity |-> sev, type |-> typ]

\* issue.category ?? "unknown", issue.severity ?? "info", issue.type ?? "unknown"
CategoryOf(issue) == IF issue.category = Undefined THEN "unknown" ELSE issue.category
SeverityOf(issue) == IF issue.severity = Undefined THEN "info" ELSE issue.severity
TypeOf(issue) == IF issue.type = Undefined THEN "unknown" ELSE issue.type

\* A Record<string, number>: a function whose domain is the set of keys present.
EmptyHist == [k \in {} |-> 0]

\* hist[key] = (hist[key] ?? 0) + n
HistAdd(hist, key, n) ==
    [k \in DOMAIN hist \cup {key} |->
        IF k = key THEN (IF key \in DOMAIN hist THEN hist[key] ELSE 0) + n
        ELSE hist[k]]

ZeroSeverity == [error |-> 0, warning |-> 0, info |-> 0]

RECURSIVE SummarizeLoop(_, _)
SummarizeLoop(issues, summary) ==
    IF issues = <<>> THEN summary
    ELSE LET issue == Head(issues)
             category == CategoryOf(issue)
             severity == SeverityOf(issue)
         IN SummarizeLoop(Tail(issues),
                [summary EXCEPT
                    !.categories = HistAdd(summary.categories, category, 1),
                    !.severity = [summary.severity EXCEPT ![severity] = @ + 1]])

summarizeIssues(issues) ==
    SummarizeLoop(issues,
        [total |-> Len(issues), categories |-> EmptyHist, severity |-> ZeroSeverity])

EmptySummary == [total |-> 0, categories |-> EmptyHist, severity |-> ZeroSeverity]

\* the value analyzeFile returns from its try block
SuccessResult(filePath, issues) ==
    [filePath |-> filePath, hasIssues |-> Len(issues) > 0, issues |-> issues,
     summary |-> summarizeIssues(issues), error |-> Undefined]

\* a failure result that still flags the file as having issues
FailureResultFlagged(filePath, message) ==
    [filePath |-> filePath, hasIssues |-> TRUE, issues |-> <<>>,
     summary |-> EmptySummary, error |-> message]

\* the value analyzeFile returns from its catch block
FailureResult(filePath, message) ==
    [filePath |-> filePath, hasIssues |-> FALSE, issues |-> <<>>,
     summary |-> EmptySummary, error |-> message]

----------------------------------------------------------------------------
(* The external checker's CompatibilityResult: errors and warnings are     *)
(* lists of violations, a violation is modelled by its number of messages. *)

CompatibilityResults ==
    {[errors |-> <<>>, warnings |-> <<>>],
     [errors |-> <<1>>, warnings |-> <<>>],
     [errors |-> <<2>>, warnings |-> <<1>>]}

RECURSIVE Repeat(_, _)
Repeat(x, n) == IF n = 0 THEN <<>> ELSE <<x>> \o Repeat(x, n - 1)

RECURSIVE ConvertViolations(_, _)
ConvertViolations(violations, sev) ==
    IF violations = <<>> THEN <<>>
    ELSE Repeat(Issue("compatibility", sev, Undefined), Head(violations))
         \o ConvertViolations(Tail(violations), sev)

convertCompatibilityResult(cr) ==
    ConvertViolations(cr.errors, "error") \o ConvertViolations(cr.warnings, "warning")

----------------------------------------------------------------------------
(* ESGuardAnalyzer.aggregateProjectStats *)

\* for (const [key, count] of Object.entries(g)) h[key] = (h[key] ?? 0) + count
MergeHist(h, g) ==
    [k \in DOMAIN h \cup DOMAIN g |->
        (IF k \in DOMAIN h THEN h[k] ELSE 0) + (IF k \in DOMAIN g THEN g[k] ELSE 0)]

RECURSIVE CountTypes(_, _)
CountTypes(issues, hist) ==
    IF issues = <<>> THEN hist
    ELSE CountTypes(Tail(issues), HistAdd(hist, TypeOf(Head(issues)), 1))

EmptyStats ==
    [totalFiles |-> 0, filesWithIssues |-> 0, totalIssues |-> 0,
     categories |-> EmptyHist, severity |-> ZeroSeverity, issueTypes |-> EmptyHist]

\* AggregateOne that takes a failed analysis for a file with issues
AggregateOneCountingFailures(stats, result) ==
    [totalFiles |-> stats.totalFiles,
     filesWithIssues |-> stats.filesWithIssues
                           + (IF result.hasIssues \/ result.error # Undefined THEN 1 ELSE 0),
     totalIssues |-> stats.totalIssues + result.summary.total,
     categories |-> MergeHist(stats.categories, result.summary.categories),
     severity |-> [sev \in Severities |->
                      stats.severity[sev] + result.summary.severity[sev]],
     issueTypes |-> CountTypes(result.issues, stats.issueTypes)]

\* one iteration of the for-of loop over results
AggregateOne(stats, result) ==
    [totalFiles |-> stats.totalFiles,
     filesWithIssues |-> stats.filesWithIssues + (IF result.hasIssues THEN 1 ELSE 0),
     totalIssues |-> stats.totalIssues + result.summary.total,
     categories |-> MergeHist(stats.categories, result.summary.categories),
     severity |-> [sev \in Severities |->
                      stats.severity[sev] + result.summary.severity[sev]],
     issueTypes |-> CountTypes(result.issues, stats.issueTypes)]

RECURSIVE AggregateLoop(_, _)
AggregateLoop(rs, stats) ==
    IF rs = <<>> THEN stats
    ELSE AggregateLoop(Tail(rs), AggregateOne(stats, Head(rs)))

aggregateProjectStats(rs) ==
    AggregateLoop(rs, [EmptyStats EXCEPT !.totalFiles = Len(rs)])

----------------------------------------------------------------------------
(* ESGuardAnalyzer.analyzeFiles: the scheduler and the per-file tasks *)

NoAnalysis == [none |-> TRUE]

TimeoutMessage == "ES-Guard analysis failed: Analysis timeout"
CheckerMessage == "ES-Guard analysis failed: checker error"

\* StartTasks with the slot test off by one (running.size <= concurrency)
RECURSIVE StartTasksOffByOne(_, _, _)
StartTasksOffByOne(q, r, c) ==
    IF Cardinality(r) <= c /\ Len(q) > 0
    THEN StartTasksOffByOne(Tail(q), r \cup {Head(q)}, c)
    ELSE [queue |-> q, running |-> r]

\* NaN as a concurrency value, the other values being integers
NaNConcurrency == 0 - 1

\* running.size < concurrency: false whenever concurrency is NaN
SlotFree(size, c) == c # NaNConcurrency /\ size < c

\* while (running.size < concurrency && queue.length > 0)
\*     { file = queue.shift(); running.add(file); void processFile(file) }
RECURSIVE StartTasks(_, _, _)
StartTasks(q, r, c) ==
    IF SlotFree(Cardinality(r), c) /\ Len(q) > 0
    THEN StartTasks(Tail(q), r \cup {Head(q)}, c)
    ELSE [queue |-> q, running |-> r]

\* One pass of the outer while loop, from its condition up to await sleep(100)
\* or to the return statement.
LoopPass(q) ==
    IF Len(q) > 0 \/ Cardinality(running) > 0
    THEN LET st == StartTasks(q, running, concurrency)
         IN /\ queue' = st.queue
            /\ running' = st.running
            /\ executing' = executing \cup (st.running \ running)
            /\ rpc' = "sleeping"
    ELSE /\ queue' = q
         /\ UNCHANGED <<running, executing>>
         /\ rpc' = "returned"

\* analyzeFiles(files, concurrency) is called and runs to its first await
AnalyzeFilesCall ==
    /\ rpc = "idle"
    /\ results' = <<>>
    /\ LoopPass(files)
    /\ UNCHANGED <<files, concurrency, analysis, statistics>>

\* sleep(100) elapses and the loop takes its next pass
Wake ==
    /\ rpc = "sleeping"
    /\ LoopPass(queue)
    /\ UNCHANGED <<files, concurrency, results, analysis, statistics>>

\* Settle that records a result only for an analysis that succeeded
SettleDroppingFailures(file, result) ==
    /\ results' = IF result.error = Undefined THEN Append(results, result) ELSE results
    /\ running' = running \ {file}

\* Settle that pushes the result and leaves the file in the running set
SettleLeavingRunning(file, result) ==
    /\ results' = Append(results, result)
    /\ running' = running

\* processFile after its await: results.push(result); finally running.delete(file)
Settle(file, result) ==
    /\ results' = Append(results, result)
    /\ running' = running \ {file}

\* checkCompatibility returns before the timeout
CheckerReturns(file, cr) ==
    /\ file \in running
    /\ file \in executing
    /\ Settle(file, SuccessResult(file, convertCompatibilityResult(cr)))
    /\ executing' = executing \ {file}
    /\ UNCHANGED <<files, concurrency, queue, rpc, analysis, statistics>>

\* performAnalysis throws before the timeout
CheckerThrows(file) ==
    /\ file \in running
    /\ file \in executing
    /\ Settle(file, FailureResult(file, CheckerMessage))
    /\ executing' = executing \ {file}
    /\ UNCHANGED <<files, concurrency, queue, rpc, analysis, statistics>>

\* the setTimeout of runESGuard fires first: Promise.race rejects, while the
\* performAnalysis promise is left running
AnalysisTimeout(file) ==
    /\ file \in running
    /\ file \in executing
    /\ Settle(file, FailureResult(file, TimeoutMessage))
    /\ UNCHANGED <<files, concurrency, queue, rpc, executing, analysis, statistics>>

\* a performAnalysis call that lost the race finishes; its outcome is dropped
AbandonedCheckerSettles(file) ==
    /\ file \in executing
    /\ file \notin running
    /\ executing' = executing \ {file}
    /\ UNCHANGED <<files, concurrency, queue, running, results, rpc, analysis,
                   statistics>>

\* ESGuardAnalyzer.analyzeProject after await this.analyzeFiles(files)
AnalyzeProjectReturns ==
    /\ rpc = "returned"
    /\ rpc' = "reported"
    /\ analysis' =
         [totalFiles |-> Len(files),
          analyzedFiles |-> Len(results),
          filesWithIssues |-> CountIn(results, LAMBDA r : r.hasIssues),
          totalIssues |-> SumSeq([i \in DOMAIN results |-> results[i].summary.total])]
    /\ statistics' = aggregateProjectStats(results)
    /\ UNCHANGED <<files, concurrency, queue, running, results, executing>>

----------------------------------------------------------------------------
(* Idle values of each variable group *)

IdleFiles ==
    /\ files = <<>> /\ concurrency = 1 /\ queue = <<>> /\ running = {}
    /\ results = <<>> /\ rpc = "off" /\ executing = {}
    /\ analysis = NoAnalysis /\ statistics = NoStats

IdleSelect ==
    /\ limit = 0 /\ spc = "off" /\ strategyIdx = 0 /\ projects = <<>>
    /\ projectsDup = <<>> /\ warnings = 0 /\ invoked = <<>> /\ firstSeen = EmptyHist
    /\ validations = EmptyHist /\ batchStart = 0 /\ validProjects = <<>>
    /\ found = <<>> /\ foundDup = <<>> /\ sample = <<>> /\ exitCode = 0

IdleMain ==
    /\ mvariant = "off" /\ mpc = "off" /\ toAnalyze = 0 /\ mi = 0 /\ mresults = <<>>
    /\ merrors = <<>> /\ attempted = 0 /\ overview = NoOverview /\ mexit = 0

IdleAgg ==
    /\ aggInput = <<>> /\ aggStats = NoStats

\* no call of a pure function made
NotCalled == [none |-> TRUE]

IdlePure ==
    /\ input = NotCalled /\ output = NotCalled

IdleCustom ==
    /\ cpc = "off" /\ pending = NotCalled /\ cwarnings = 0

IdleRetry ==
    /\ rtpc = "off" /\ attempt = 0 /\ fnCalls = 0 /\ fnLog = <<>> /\ delays = <<>>

IdleBatch ==
    /\ bpc = "off" /\ bi = 0 /\ bcalls = <<>> /\ bsettled = EmptyHist
    /\ bvalid = <<>> /\ bsleeps = 0

IdleTemp ==
    /\ tnow = 0 /\ tdir = <<>> /\ tpc = <<>> /\ tfs = EmptyHist /\ tscanned = <<>>

IdleExtra == IdleRetry /\ IdleBatch /\ IdleTemp

----------------------------------------------------------------------------
(* Spec: analyzeProject -> analyzeFiles on 0..MaxFiles files *)

Init ==
    /\ \E n \in 0..MaxFiles : files = [i \in 1..n |-> i]
    /\ concurrency \in 1..MaxConcurrency
    /\ queue = <<>> /\ running = {} /\ results = <<>> /\ executing = {}
    /\ rpc = "idle"
    /\ analysis = NoAnalysis /\ statistics = NoStats
    /\ IdleSelect /\ IdleMain /\ IdleAgg /\ IdlePure /\ IdleCustom /\ IdleExtra

Next ==
    \/ AnalyzeFilesCall /\ UNCHANGED <<selVars, mainVars, aggVars, pureVars, customVars, extraVars>>
    \/ Wake /\ UNCHANGED <<selVars, mainVars, aggVars, pureVars, customVars, extraVars>>
    \/ \E file \in Range(files), cr \in CompatibilityResults :
          CheckerReturns(file, cr) /\ UNCHANGED <<selVars, mainVars, aggVars, pureVars, customVars, extraVars>>
    \/ \E file \in Range(files) :
          CheckerThrows(file) /\ UNCHANGED <<selVars, mainVars, aggVars, pureVars, customVars, extraVars>>
    \/ \E file \in Range(files) :
          AnalysisTimeout(file) /\ UNCHANGED <<selVars, mainVars, aggVars, pureVars, customVars, extraVars>>
    \/ \E file \in Range(files) :
          AbandonedCheckerSettles(file) /\ UNCHANGED <<selVars, mainVars, aggVars, pureVars, customVars, extraVars>>
    \/ AnalyzeProjectReturns /\ UNCHANGED <<selVars, mainVars, aggVars, pureVars, customVars, extraVars>>

Spec == Init /\ [][Next]_vars

----------------------------------------------------------------------------
(* GitHubRepository records and the search criteria *)

Names == {"a/x", "b/y"}

\* String order of the full_names above ("a/x" < "b/y")
NameRank == [n \in Names |-> IF n = "a/x" THEN 1 ELSE 2]

\* forks_count and created_at (year) of each repository
ForksCount == [n \in Names |-> IF n = "b/y" THEN 0 ELSE 1]
CreatedAt == [n \in Names |-> IF n = "b/y" THEN 2019 ELSE 2021]

Repository(n, stars) ==
    [full_name |-> n, stargazers_count |-> stars,
     forks_count |-> ForksCount[n], created_at |-> CreatedAt[n]]

\* what a search may report: code search items carry no star count (?? 0)
Repositories == {Repository(n, stars) : n \in Names, stars \in 0..MaxStars}

\* config.research.searchCriteria, counts scaled to the record universe
Criteria == [minStars |-> 1, minForks |-> 1, createdAfter |-> 2020]

RECURSIVE SeqsUpTo(_, _)
SeqsUpTo(S, n) ==
    IF n = 0 THEN {<<>>}
    ELSE LET shorter == SeqsUpTo(S, n - 1)
         IN shorter \cup {Append(q, x) : q \in {t \in shorter : Len(t) = n - 1}, x \in S}

\* the result lists one strategy call may resolve with
StrategyResults == SeqsUpTo(Repositories, MaxResults)

\* searchByPackageJson, searchByNextJSFramework, searchByPopularKeywords
NumStrategies == 3

----------------------------------------------------------------------------
(* GitHubClient.searchNextJSProjects: the strategy loop *)

Has(map, name) == \E i \in DOMAIN map : map[i].full_name = name

\* Map.set on a key that is present replaces the value in place
MapSet(map, project) ==
    IF Has(map, project.full_name)
    THEN [i \in DOMAIN map |->
            IF map[i].full_name = project.full_name THEN project ELSE map[i]]
    ELSE Append(map, project)

\* the merge loop without the has() test: the last record of an identity wins
RECURSIVE MergeLastWins(_, _)
MergeLastWins(map, strategyResult) ==
    IF strategyResult = <<>> THEN map
    ELSE MergeLastWins(MapSet(map, Head(strategyResult)), Tail(strategyResult))

\* for (const project of results)
\*     if (!projects.has(project.full_name)) projects.set(project.full_name, project)
RECURSIVE MergeResults(_, _)
MergeResults(map, strategyResult) ==
    IF strategyResult = <<>> THEN map
    ELSE LET project == Head(strategyResult)
         IN MergeResults(IF ~Has(map, project.full_name) THEN MapSet(map, project)
                         ELSE map,
                         Tail(strategyResult))

\* a strategy result with every record returned twice
RECURSIVE Duplicated(_)
Duplicated(strategyResult) ==
    IF strategyResult = <<>> THEN <<>>
    ELSE <<Head(strategyResult), Head(strategyResult)>> \o Duplicated(Tail(strategyResult))

FirstIndexOf(strategyResult, name) ==
    CHOOSE i \in DOMAIN strategyResult :
        /\ strategyResult[i].full_name = name
        /\ \A j \in 1..(i - 1) : strategyResult[j].full_name # name

\* the loop is entered for the next strategy: not all done, limit not reached
LoopContinues == strategyIdx < NumStrategies /\ Len(projects) < limit

\* await strategy(limit - projects.size) resolves; merge; checkRateLimit
StrategyReturns(strategyResult) ==
    /\ spc = "searching"
    /\ LoopContinues
    /\ projects' = MergeResults(projects, strategyResult)
    /\ projectsDup' = MergeResults(projectsDup, Duplicated(strategyResult))
    /\ firstSeen' =
         [n \in DOMAIN firstSeen \cup {r.full_name : r \in Range(strategyResult)} |->
            IF n \in DOMAIN firstSeen THEN firstSeen[n]
            ELSE strategyResult[FirstIndexOf(strategyResult, n)]]
    /\ invoked' = Append(invoked, "returned")
    /\ strategyIdx' = strategyIdx + 1
    /\ UNCHANGED <<limit, spc, warnings, validations, batchStart, validProjects,
                   found, foundDup, sample, exitCode>>

\* a strategy failure that leaves the loop instead of going on
StrategyThrowsLeavingLoop ==
    /\ spc = "searching"
    /\ LoopContinues
    /\ warnings' = warnings + 1
    /\ invoked' = Append(invoked, "threw")
    /\ strategyIdx' = NumStrategies
    /\ UNCHANGED <<limit, spc, projects, projectsDup, firstSeen, validations,
                   batchStart, validProjects, found, foundDup, sample, exitCode>>

\* await strategy(...) rejects: console.warn("Strategy failed: ...")
StrategyThrows ==
    /\ spc = "searching"
    /\ LoopContinues
    /\ warnings' = warnings + 1
    /\ invoked' = Append(invoked, "threw")
    /\ strategyIdx' = strategyIdx + 1
    /\ UNCHANGED <<limit, spc, projects, projectsDup, firstSeen, validations,
                   batchStart, validProjects, found, foundDup, sample, exitCode>>

\* the for-of loop ends (all strategies done, or break on projects.size >= limit)
\* and filterValidNextJSProjects(allProjects) is called
StartValidation ==
    /\ spc = "searching"
    /\ ~LoopContinues
    /\ spc' = "validating"
    /\ batchStart' = 0
    /\ validProjects' = <<>>
    /\ validations' = EmptyHist
    /\ UNCHANGED <<limit, strategyIdx, projects, projectsDup, warnings, invoked,
                   firstSeen, found, foundDup, sample, exitCode>>

----------------------------------------------------------------------------
(* GitHubClient.validateNextJSProject / filterValidNextJSProjects *)

\* default of the maxConcurrent parameter
MaxConcurrent == 5

Manifest(kind, deps, devDeps) ==
    [kind |-> kind, dependencies |-> deps, devDependencies |-> devDeps]

\* what fetching and parsing package.json can come to
Manifests ==
    {Manifest("notfound", {}, {}), Manifest("fetcherror", {}, {}),
     Manifest("unparseable", {}, {}), Manifest("parsed", {}, {}),
     Manifest("parsed", {"next"}, {}), Manifest("parsed", {}, {"next"}),
     Manifest("parsed", {"next-auth"}, {"nextjs-toploader"})}

validateNextJSProject(manifest) ==
    CASE manifest.kind = "fetcherror" ->
            [isValid |-> FALSE, reason |-> "Error validating project"]
      [] manifest.kind = "notfound" ->
            [isValid |-> FALSE, reason |-> "No package.json found"]
      [] manifest.kind = "unparseable" ->
            [isValid |-> FALSE, reason |-> "Error validating project"]
      [] manifest.kind = "parsed" ->
            LET allDeps == manifest.dependencies \cup manifest.devDependencies
                nextJSKeys == {key \in allDeps : key = "next"}
            IN IF nextJSKeys = {}
               THEN [isValid |-> FALSE, reason |-> "No NextJS dependencies found"]
               ELSE [isValid |-> TRUE, reason |-> "Found NextJS dependency"]

Slice(s, n) == SubSeq(s, 1, Min(n, Len(s)))

\* projects.slice(i, i + batchSize)
Batch == SubSeq(projects, batchStart + 1, Min(batchStart + MaxConcurrent, Len(projects)))

IsValid(outcomes, project) ==
    /\ project.full_name \in DOMAIN outcomes
    /\ outcomes[project.full_name].isValid

\* one promise of the batch settles (every full_name here has owner and repo)
ValidationSettles(name, manifest) ==
    /\ spc = "validating"
    /\ Has(Batch, name)
    /\ name \notin DOMAIN validations
    /\ validations' = [n \in DOMAIN validations \cup {name} |->
                          IF n = name THEN validateNextJSProject(manifest)
                          ELSE validations[n]]
    /\ UNCHANGED <<limit, spc, strategyIdx, projects, projectsDup, warnings, invoked,
                   firstSeen, batchStart, validProjects, found, foundDup, sample,
                   exitCode>>

\* Promise.all(promises) resolves: push the valid ones, pause, next batch
BatchCompletes ==
    /\ spc = "validating"
    /\ batchStart < Len(projects)
    /\ \A i \in DOMAIN Batch : Batch[i].full_name \in DOMAIN validations
    /\ validProjects' =
          validProjects \o SelectSeq(Batch, LAMBDA project : IsValid(validations, project))
    /\ batchStart' = batchStart + MaxConcurrent
    /\ UNCHANGED <<limit, spc, strategyIdx, projects, projectsDup, warnings, invoked,
                   firstSeen, validations, found, foundDup, sample, exitCode>>

\* filterValidNextJSProjects returns and searchNextJSProjects returns
\* validProjects.slice(0, limit)
SearchReturns ==
    /\ spc = "validating"
    /\ batchStart >= Len(projects)
    /\ found' = Slice(validProjects, limit)
    /\ foundDup' = Slice(SelectSeq(projectsDup,
                                   LAMBDA project : IsValid(validations, project)),
                         limit)
    /\ spc' = "ranking"
    /\ UNCHANGED <<limit, strategyIdx, projects, projectsDup, warnings, invoked,
                   firstSeen, validations, batchStart, validProjects, sample, exitCode>>

----------------------------------------------------------------------------
(* fetch main: sort, sample, save *)

\* Array.prototype.sort is stable: x goes after every element that the
\* comparator (a, b) => b.stargazers_count - a.stargazers_count does not put
\* behind it
RECURSIVE InsertByStars(_, _)
InsertByStars(sorted, x) ==
    IF sorted = <<>> THEN <<x>>
    ELSE IF Head(sorted).stargazers_count >= x.stargazers_count
         THEN <<Head(sorted)>> \o InsertByStars(Tail(sorted), x)
         ELSE <<x>> \o sorted

RECURSIVE SortByStarsFrom(_, _)
SortByStarsFrom(sorted, rest) ==
    IF rest = <<>> THEN sorted
    ELSE SortByStarsFrom(InsertByStars(sorted, Head(rest)), Tail(rest))

SortByStars(s) == SortByStarsFrom(<<>>, s)

\* projects.sort(...); sampledProjects = projects.slice(0, sampleSize)
RankAndSample ==
    /\ spc = "ranking"
    /\ sample' = Slice(SortByStars(found), limit)
    /\ spc' = "saving"
    /\ UNCHANGED <<limit, strategyIdx, projects, projectsDup, warnings, invoked,
                   firstSeen, validations, batchStart, validProjects, found, foundDup,
                   exitCode>>

\* saveJson(projectsFile, projectsData) resolves
SaveProjects ==
    /\ spc = "saving"
    /\ spc' = "done"
    /\ UNCHANGED <<limit, strategyIdx, projects, projectsDup, warnings, invoked,
                   firstSeen, validations, batchStart, validProjects, found, foundDup,
                   sample, exitCode>>

\* saveJson rejects: the catch block of main calls process.exit(1)
SaveProjectsFails ==
    /\ spc = "saving"
    /\ spc' = "exited"
    /\ exitCode' = 1
    /\ UNCHANGED <<limit, strategyIdx, projects, projectsDup, warnings, invoked,
                   firstSeen, validations, batchStart, validProjects, found, foundDup,
                   sample>>

InitSelect ==
    /\ limit \in 1..MaxLimit
    /\ spc = "searching" /\ strategyIdx = 0 /\ projects = <<>> /\ projectsDup = <<>>
    /\ warnings = 0 /\ invoked = <<>> /\ firstSeen = EmptyHist
    /\ validations = EmptyHist /\ batchStart = 0 /\ validProjects = <<>>
    /\ found = <<>> /\ foundDup = <<>> /\ sample = <<>> /\ exitCode = 0
    /\ IdleFiles /\ IdleMain /\ IdleAgg /\ IdlePure /\ IdleCustom /\ IdleExtra

NextSelect ==
    \/ \E strategyResult \in StrategyResults :
          StrategyReturns(strategyResult) /\ UNCHANGED <<fileVars, mainVars, aggVars, pureVars, customVars, extraVars>>
    \/ StrategyThrows /\ UNCHANGED <<fileVars, mainVars, aggVars, pureVars, customVars, extraVars>>
    \/ StartValidation /\ UNCHANGED <<fileVars, mainVars, aggVars, pureVars, customVars, extraVars>>
    \/ \E name \in Names, manifest \in Manifests :
          ValidationSettles(name, manifest) /\ UNCHANGED <<fileVars, mainVars, aggVars, pureVars, customVars, extraVars>>
    \/ BatchCompletes /\ UNCHANGED <<fileVars, mainVars, aggVars, pureVars, customVars, extraVars>>
    \/ SearchReturns /\ UNCHANGED <<fileVars, mainVars, aggVars, pureVars, customVars, extraVars>>
    \/ RankAndSample /\ UNCHANGED <<fileVars, mainVars, aggVars, pureVars, customVars, extraVars>>
    \/ SaveProjects /\ UNCHANGED <<fileVars, mainVars, aggVars, pureVars, customVars, extraVars>>
    \/ SaveProjectsFails /\ UNCHANGED <<fileVars, mainVars, aggVars, pureVars, customVars, extraVars>>

SpecSelect == InitSelect /\ [][NextSelect]_vars

----------------------------------------------------------------------------
(* The analysis main: the for loop over projectsToAnalyze and the summary *)

\* the overview block of generateAnalysisSummary(results, errors)
generateAnalysisSummary(rs, es) ==
    LET totalProjects == Len(rs) + Len(es)
        projectsWithIssues == CountIn(rs, LAMBDA r : r.statistics.filesWithIssues > 0)
    IN [totalProjects |-> totalProjects,
        analyzedProjects |-> Len(rs),
        failedProjects |-> Len(es),
        projectsWithIssues |-> projectsWithIssues,
        projectsWithoutIssues |-> Len(rs) - projectsWithIssues]

\* top of the loop body: analyzeProject(githubClient, project) is called
BeginProject ==
    /\ mpc = "loop"
    /\ mi < toAnalyze
    /\ attempted' = attempted + 1
    /\ mpc' = "analyzing"
    /\ UNCHANGED <<mvariant, toAnalyze, mi, mresults, merrors, overview, mexit>>

\* analyzeProject resolves: results.push(projectResult), then saveJson is awaited
AnalysisSucceeds(filesWithIssues) ==
    /\ mpc = "analyzing"
    /\ mresults' = Append(mresults,
          [project |-> mi, statistics |-> [filesWithIssues |-> filesWithIssues]])
    /\ mpc' = "saving"
    /\ UNCHANGED <<mvariant, toAnalyze, mi, merrors, attempted, overview, mexit>>

\* the catch block exiting whatever the error is
CatchErrorAlwaysExits(isCritical) ==
    /\ merrors' = Append(merrors, [project |-> mi, isCritical |-> isCritical])
    /\ mpc' = "exited" /\ mexit' = 1 /\ mi' = mi

\* the catch block: errors.push(...); process.exit(1) when the error is critical
CatchError(isCritical) ==
    /\ merrors' = Append(merrors, [project |-> mi, isCritical |-> isCritical])
    /\ IF isCritical
       THEN /\ mpc' = "exited" /\ mexit' = 1 /\ mi' = mi
       ELSE /\ mpc' = "loop" /\ mi' = mi + 1 /\ mexit' = mexit

\* the catch block of the main that classifies no error: errors.push(...)
CatchUnclassified ==
    /\ merrors' = Append(merrors, [project |-> mi])
    /\ mpc' = "loop" /\ mi' = mi + 1 /\ mexit' = mexit

\* analyzeProject rejects
AnalysisThrows(isCritical) ==
    /\ mvariant = "classifying"
    /\ mpc = "analyzing"
    /\ CatchError(isCritical)
    /\ UNCHANGED <<mvariant, toAnalyze, mresults, attempted, overview>>

AnalysisThrowsUnclassified ==
    /\ mvariant = "unclassified"
    /\ mpc = "analyzing"
    /\ CatchUnclassified
    /\ UNCHANGED <<mvariant, toAnalyze, mresults, attempted, overview>>

\* saveJson of the per-project file resolves, then the 1 s pause
SaveSucceeds ==
    /\ mpc = "saving"
    /\ mpc' = "loop"
    /\ mi' = mi + 1
    /\ UNCHANGED <<mvariant, toAnalyze, mresults, merrors, attempted, overview, mexit>>

\* saveJson of the per-project file rejects, inside the same try block
SaveThrows(isCritical) ==
    /\ mvariant = "classifying"
    /\ mpc = "saving"
    /\ CatchError(isCritical)
    /\ UNCHANGED <<mvariant, toAnalyze, mresults, attempted, overview>>

SaveThrowsUnclassified ==
    /\ mvariant = "unclassified"
    /\ mpc = "saving"
    /\ CatchUnclassified
    /\ UNCHANGED <<mvariant, toAnalyze, mresults, attempted, overview>>

\* the loop is over: generateAnalysisSummary(results, errors)
Summarize ==
    /\ mpc = "loop"
    /\ mi >= toAnalyze
    /\ overview' = generateAnalysisSummary(mresults, merrors)
    /\ mpc' = "done"
    /\ UNCHANGED <<mvariant, toAnalyze, mi, mresults, merrors, attempted, mexit>>

InitMain ==
    /\ mvariant \in {"classifying", "unclassified"}
    /\ toAnalyze \in 0..MaxProjects
    /\ mpc = "loop" /\ mi = 0 /\ mresults = <<>> /\ merrors = <<>>
    /\ attempted = 0 /\ overview = NoOverview /\ mexit = 0
    /\ IdleFiles /\ IdleSelect /\ IdleAgg /\ IdlePure /\ IdleCustom /\ IdleExtra

NextMain ==
    \/ BeginProject /\ UNCHANGED <<fileVars, selVars, aggVars, pureVars, customVars, extraVars>>
    \/ \E n \in 0..MaxFilesWithIssues :
          AnalysisSucceeds(n) /\ UNCHANGED <<fileVars, selVars, aggVars, pureVars, customVars, extraVars>>
    \/ \E c \in BOOLEAN : AnalysisThrows(c) /\ UNCHANGED <<fileVars, selVars, aggVars, pureVars, customVars, extraVars>>
    \/ SaveSucceeds /\ UNCHANGED <<fileVars, selVars, aggVars, pureVars, customVars, extraVars>>
    \/ \E c \in BOOLEAN : SaveThrows(c) /\ UNCHANGED <<fileVars, selVars, aggVars, pureVars, customVars, extraVars>>
    \/ AnalysisThrowsUnclassified /\ UNCHANGED <<fileVars, selVars, aggVars, pureVars, customVars, extraVars>>
    \/ SaveThrowsUnclassified /\ UNCHANGED <<fileVars, selVars, aggVars, pureVars, customVars, extraVars>>
    \/ Summarize /\ UNCHANGED <<fileVars, selVars, aggVars, pureVars, customVars, extraVars>>

SpecMain == InitMain /\ [][NextMain]_vars

----------------------------------------------------------------------------
(* SpecAgg: aggregateProjectStats applied to lists of FileAnalysisResults *)

\* issues as callers and tests pass them, optional fields present or absent
SampleIssues ==
    {Issue("compatibility", "error", "syntax"),
     Issue("performance", "warning", Undefined),
     Issue(Undefined, Undefined, "syntax")}

IssueLists == SeqsUpTo(SampleIssues, MaxIssues)

\* the results analyzeFile can return for the file at position filePath
FileResults(filePath) ==
    {SuccessResult(filePath, issues) : issues \in IssueLists}
        \cup {FailureResult(filePath, CheckerMessage)}

ResultLists ==
    UNION {{rs \in [1..n -> UNION {FileResults(i) : i \in 1..n}] :
                \A i \in 1..n : rs[i].filePath = i} : n \in 0..MaxAggFiles}

Aggregate ==
    /\ aggStats = NoStats
    /\ aggStats' = aggregateProjectStats(aggInput)
    /\ UNCHANGED aggInput

InitAgg ==
    /\ aggInput \in ResultLists
    /\ aggStats = NoStats
    /\ IdleFiles /\ IdleSelect /\ IdleMain /\ IdlePure /\ IdleCustom /\ IdleExtra

NextAgg == Aggregate /\ UNCHANGED <<fileVars, selVars, mainVars, pureVars, customVars, extraVars>>

SpecAgg == InitAgg /\ [][NextAgg]_vars

----------------------------------------------------------------------------
(* Claims about analyzeFiles / analyzeProject (Spec) *)

ResultsFor(file) == {i \in DOMAIN results : results[i].filePath = file}

\* C1: when analyzeFiles has returned, results holds exactly one
\* FileAnalysisResult per input file, whatever each analysis did (returned,
\* threw, timed out), and analyzeProject then reports analyzedFiles = totalFiles.
C1_OneResultPerFile ==
    /\ rpc \in {"returned", "reported"} =>
          /\ Len(results) = Len(files)
          /\ \A file \in Range(files) : Cardinality(ResultsFor(file)) = 1
    /\ rpc = "reported" => analysis.analyzedFiles = analysis.totalFiles

\* a run over three files that returned with a success, a checker failure and
\* a timeout among its results
C1_Witness ==
    /\ rpc = "reported"
    /\ Len(files) >= 3
    /\ \E i \in DOMAIN results : results[i].error = TimeoutMessage
    /\ \E i \in DOMAIN results : results[i].error = CheckerMessage
    /\ \E i \in DOMAIN results : results[i].hasIssues

\* files taken from the queue whose result has not been pushed yet
Outstanding ==
    {file \in Range(files) : file \notin Range(queue) /\ ResultsFor(file) = {}}

\* C2: once analyzeFiles is running, the files started and not yet completed
\* never number more than concurrency (so never two when concurrency = 1).
C2_BoundedOutstanding ==
    rpc # "idle" => Cardinality(Outstanding) <= concurrency

\* the ceiling of two is reached with a file still waiting in the queue
C2_Witness ==
    /\ rpc = "sleeping"
    /\ concurrency >= 2
    /\ Cardinality(Outstanding) = concurrency
    /\ Len(queue) > 0

----------------------------------------------------------------------------
(* Claims about the analysis main loop (SpecMain) *)

InResults(p) == \E i \in DOMAIN mresults : mresults[i].project = p
InErrors(p) == \E i \in DOMAIN merrors : merrors[i].project = p

\* C3: between iterations and in the summary, every attempted project is in
\* exactly one of results and errors: analyzed + failed = attempted, and
\* with-issues + without-issues = analyzed.
C3_ExactlyOneList ==
    /\ mpc \in {"loop", "done", "exited"} =>
          /\ \A p \in 0..(attempted - 1) : InResults(p) # InErrors(p)
          /\ Len(mresults) + Len(merrors) = attempted
    /\ mpc = "done" =>
          /\ overview.analyzedProjects + overview.failedProjects = attempted
          /\ overview.projectsWithIssues + overview.projectsWithoutIssues
                = overview.analyzedProjects

----------------------------------------------------------------------------
(* Claims about project selection (SpecSelect) *)

\* every candidate that passed validation, before any truncation
ValidatedCandidates == SelectSeq(projects, LAMBDA project : IsValid(validations, project))

\* stars descending, ties by full_name ascending
RanksBefore(a, b) ==
    \/ a.stargazers_count > b.stargazers_count
    \/ /\ a.stargazers_count = b.stargazers_count
       /\ NameRank[a.full_name] < NameRank[b.full_name]

Sampled == spc \in {"saving", "done", "exited"}

\* C4: the sample is the first sampleSize entries of ALL validated candidates
\* ranked by stars descending, ties by full_name ascending.
C4_RankBeforeTruncate ==
    Sampled =>
       /\ Len(sample) = Min(limit, Len(ValidatedCandidates))
       /\ Range(sample) \subseteq Range(ValidatedCandidates)
       /\ \A i, j \in DOMAIN sample : i < j => RanksBefore(sample[i], sample[j])
       /\ \A out \in Range(ValidatedCandidates) \ Range(sample) :
             \A in \in Range(sample) : RanksBefore(in, out)

MeetsCriteria(project) ==
    /\ project.stargazers_count >= Criteria.minStars
    /\ project.forks_count >= Criteria.minForks
    /\ project.created_at >= Criteria.createdAfter

\* C5: every record of the sample meets minStars, minForks and createdAfter,
\* whatever the strategies returned.
C5_SampleMeetsCriteria ==
    Sampled => \A i \in DOMAIN sample : MeetsCriteria(sample[i])

\* C6: each full_name is at most once in the candidate set, the record kept is
\* the first one any strategy returned for it, and the run on the duplicated
\* strategy results yields the same candidates and the same search output.
C6_DedupFirstSeen ==
    /\ \A i, j \in DOMAIN projects :
          projects[i].full_name = projects[j].full_name => i = j
    /\ {projects[i].full_name : i \in DOMAIN projects} = DOMAIN firstSeen
    /\ \A i \in DOMAIN projects : projects[i] = firstSeen[projects[i].full_name]
    /\ projectsDup = projects
    /\ spc \in {"ranking", "saving", "done", "exited"} => foundDup = found

\* two strategies returned different records of one identity, and the search
\* returned a candidate
C6_Witness ==
    /\ spc = "ranking"
    /\ Len(found) > 0
    /\ Len(invoked) = NumStrategies
    /\ \E i \in DOMAIN projects : projects[i].stargazers_count = 0
    /\ \E i \in DOMAIN projects : projects[i].stargazers_count = MaxStars

\* the outcome the batch code acts on: its if (validation.isValid) ... else ...
OutcomeClass(validation) == IF validation.isValid THEN "valid" ELSE "invalid"

\* the reason the catch block of validateNextJSProject gives
ErrorReason == "Error validating project"

\* C7: a candidate whose manifest fetch failed (other than not-found) or whose
\* manifest could not be parsed is classified indeterminate, not invalid, and
\* is not in the sample.
C7_IndeterminateOutcome ==
    \A name \in DOMAIN validations :
        validations[name].reason = ErrorReason =>
            /\ OutcomeClass(validations[name]) = "indeterminate"
            /\ ~Has(sample, name)

Count(seq, x) == Cardinality({i \in DOMAIN seq : seq[i] = x})

\* C8: a throwing strategy adds no record and removes none, logs one warning,
\* and the loop goes on to the next strategy: the loop is left only after the
\* last strategy or when the limit is reached.
C8_StrategyFailureIsolated ==
    /\ [](/\ warnings = Count(invoked, "threw")
          /\ Len(invoked) = strategyIdx
          /\ spc # "searching" => (Len(invoked) = NumStrategies \/ Len(projects) >= limit))
    /\ [][(Len(invoked') > Len(invoked) /\ invoked'[Len(invoked')] = "threw")
            => (projects' = projects /\ spc' = spc)]_vars

\* the first strategy threw, a later one still delivered the candidates
C8_Witness ==
    /\ spc = "validating"
    /\ Len(invoked) = NumStrategies
    /\ invoked[1] = "threw"
    /\ invoked[3] = "returned"
    /\ Len(projects) > 0

\* C9: the run fails hard exactly when no candidate survives validation:
\* no projects.json is written with zero survivors, and with survivors a
\* sample is produced.
C9_HardFailureIffNoSurvivor ==
    /\ spc = "done" => Len(ValidatedCandidates) > 0
    /\ (Sampled /\ Len(ValidatedCandidates) > 0) => Len(sample) > 0

----------------------------------------------------------------------------
(* Claims about aggregateProjectStats (SpecAgg) *)

AllIssues == Flatten([i \in DOMAIN aggInput |-> aggInput[i].issues])

\* the frequency count of Key over a list of issues
Frequency(issues, Key(_)) ==
    [k \in {Key(issues[i]) : i \in DOMAIN issues} |->
        Cardinality({i \in DOMAIN issues : Key(issues[i]) = k})]

\* C10: totalFiles is the number of results, filesWithIssues the number of
\* results with a non-empty issues list, totalIssues the number of issues over
\* all results, and the category, severity and type histograms are the
\* frequency counts over all issues; the empty list gives zeros and empty
\* histograms.
C10_AggregateCounts ==
    aggStats # NoStats =>
       /\ aggStats.totalFiles = Len(aggInput)
       /\ aggStats.filesWithIssues = CountIn(aggInput, LAMBDA r : r.issues # <<>>)
       /\ aggStats.totalIssues = Len(AllIssues)
       /\ aggStats.categories = Frequency(AllIssues, CategoryOf)
       /\ aggStats.issueTypes = Frequency(AllIssues, TypeOf)
       /\ \A sev \in Severities :
             aggStats.severity[sev]
                = Cardinality({i \in DOMAIN AllIssues : SeverityOf(AllIssues[i]) = sev})
       /\ aggInput = <<>> => aggStats = EmptyStats

\* a failed analysis next to a file with two issues of one category
C10_Witness ==
    /\ aggStats # NoStats
    /\ \E i \in DOMAIN aggInput : aggInput[i].error # Undefined
    /\ aggStats.totalIssues >= 2
    /\ \E k \in DOMAIN aggStats.categories : aggStats.categories[k] >= 2

----------------------------------------------------------------------------
(* ESGuardAnalyzer.summarizeIssues over the checker's Violation objects:   *)
(* a Violation is a file and its messages, a message has a numeric severity *)
(* and a ruleId.  A file path is the list of its parts between dots.        *)

MaxViolations == 2
MaxMessages == 1

\* an absent numeric field (undefined): equal to no number the checker reports
UndefinedNumber == 0 - 1

Message(severity, ruleId) == [severity |-> severity, ruleId |-> ruleId]

Violation(file, messages) == [file |-> file, messages |-> messages]

ToLowerCase(str) ==
    CASE str = "JS" -> "js" [] str = "TSX" -> "tsx" [] OTHER -> str

\* filePath.split(".").pop()?.toLowerCase() ?? "unknown", then the if chain
extractCategory(filePath) ==
    LET ext == ToLowerCase(filePath[Len(filePath)])
    IN CASE ext \in {"js", "mjs"} -> "javascript"
         [] ext \in {"ts", "tsx"} -> "typescript"
         [] OTHER -> ext

\* switch (severity) { case 2: case 1: case 0: default: }
mapSeverity(severity) ==
    CASE severity = 2 -> "error"
      [] severity = 1 -> "warning"
      [] severity = 0 -> "info"
      [] OTHER -> "warning"

\* for (const message of issue.messages)
RECURSIVE CountMessages(_, _)
CountMessages(messages, summary) ==
    IF messages = <<>> THEN summary
    ELSE LET message == Head(messages)
             severity == mapSeverity(message.severity)
             ruleId == IF message.ruleId = Undefined THEN "unknown" ELSE message.ruleId
         IN CountMessages(Tail(messages),
                [summary EXCEPT
                    !.severity = [summary.severity EXCEPT ![severity] = @ + 1],
                    !.issueTypes = HistAdd(summary.issueTypes, ruleId, 1)])

\* for (const issue of issues)
RECURSIVE SummarizeViolationsLoop(_, _)
SummarizeViolationsLoop(issues, summary) ==
    IF issues = <<>> THEN summary
    ELSE LET issue == Head(issues)
             category == extractCategory(issue.file)
         IN SummarizeViolationsLoop(Tail(issues),
                CountMessages(issue.messages,
                    [summary EXCEPT
                        !.categories = HistAdd(summary.categories, category, 1)]))

summarizeViolations(issues) ==
    SummarizeViolationsLoop(issues,
        [total |-> Len(issues), categories |-> EmptyHist, severity |-> ZeroSeverity,
         issueTypes |-> EmptyHist])

----------------------------------------------------------------------------
(* SpecSummarize: summarizeIssues applied to a list of issues, in the      *)
(* variant over ESGuardIssue objects and in the variant over Violations    *)

SampleMessages ==
    {Message(2, "no-x"), Message(1, Undefined), Message(0, "no-x"),
     Message(UndefinedNumber, "no-x")}

FilePaths == {<<"src/app", "JS">>, <<"README">>}

Violations ==
    {Violation(file, messages) :
        file \in FilePaths, messages \in SeqsUpTo(SampleMessages, MaxMessages)}

SummarizeInputs ==
    {[variant |-> "ESGuardIssue", list |-> issues] : issues \in IssueLists}
        \cup {[variant |-> "Violation", list |-> issues] :
                 issues \in SeqsUpTo(Violations, MaxViolations)}

SummarizeIssuesCall ==
    /\ output = NotCalled
    /\ input.variant = "ESGuardIssue"
    /\ output' = summarizeIssues(input.list)
    /\ UNCHANGED input

SummarizeViolationsCall ==
    /\ output = NotCalled
    /\ input.variant = "Violation"
    /\ output' = summarizeViolations(input.list)
    /\ UNCHANGED input

InitSummarize ==
    /\ input \in SummarizeInputs
    /\ output = NotCalled
    /\ IdleFiles /\ IdleSelect /\ IdleMain /\ IdleAgg /\ IdleCustom /\ IdleExtra

NextSummarize ==
    \/ SummarizeIssuesCall /\ UNCHANGED <<fileVars, selVars, mainVars, aggVars, customVars, extraVars>>
    \/ SummarizeViolationsCall /\ UNCHANGED <<fileVars, selVars, mainVars, aggVars, customVars, extraVars>>

SpecSummarize == InitSummarize /\ [][NextSummarize]_vars

----------------------------------------------------------------------------
(* Claims about summarizeIssues (SpecSummarize) *)

AllMessages == Flatten([i \in DOMAIN input.list |-> input.list[i].messages])

\* C11: every issue without a severity is counted under info and every issue
\* without a category under unknown; only issues whose severity is warning
\* are counted under warning; total is the number of issues.
C11_MissingFieldDefaults ==
    output # NotCalled =>
       /\ output.total = Len(input.list)
       /\ input.variant = "ESGuardIssue" =>
             LET issues == input.list
                 uncategorized == CountIn(issues, LAMBDA i : i.category = Undefined)
             IN /\ output.severity.info >= CountIn(issues, LAMBDA i : i.severity = Undefined)
                /\ output.severity.warning <= CountIn(issues, LAMBDA i : i.severity = "warning")
                /\ uncategorized > 0 =>
                      /\ "unknown" \in DOMAIN output.categories
                      /\ output.categories["unknown"] >= uncategorized
       /\ input.variant = "Violation" =>
             /\ output.severity.info
                   >= CountIn(AllMessages, LAMBDA m : m.severity = UndefinedNumber)
             /\ output.severity.warning
                   <= CountIn(AllMessages, LAMBDA m : m.severity = 1)

----------------------------------------------------------------------------
(* ESGuardAnalyzer.analyzeWithCustomConfig(filePath, content, customConfig) *)

ConfigMessage == "Invalid configuration"
MkdirMessage == "mkdir failed"
WriteFileMessage == "writeFile failed"
RmMessage == "rm failed"
CompatibilityMessage == "checker error"

CustomConfigs == {"valid", "invalid-target"}

\* the arguments of one call
CustomInputs == [filePath : 1..MaxFiles, customConfig : CustomConfigs]

\* the outer catch block: return the failure result with (error as Error).message
CustomFails(message) ==
    /\ output' = FailureResult(input.filePath, message)
    /\ cpc' = "returned"
    /\ pending' = NotCalled

\* the call is made; validateConfig(customConfig) throws or returns
CustomConfigCall ==
    /\ cpc = "idle"
    /\ IF input.customConfig = "valid"
       THEN /\ cpc' = "mkdir"
            /\ UNCHANGED <<output, pending>>
       ELSE CustomFails(ConfigMessage)
    /\ UNCHANGED <<input, cwarnings>>

\* await fs.mkdir(tempDir, { recursive: true })
Mkdir(ok) ==
    /\ cpc = "mkdir"
    /\ cpc' = IF ok THEN "writeFile" ELSE "cleanup"
    /\ pending' = IF ok THEN pending ELSE MkdirMessage
    /\ UNCHANGED <<input, output, cwarnings>>

\* await fs.writeFile(tempFilePath, content, "utf8")
WriteFile(ok) ==
    /\ cpc = "writeFile"
    /\ cpc' = IF ok THEN "check" ELSE "cleanup"
    /\ pending' = IF ok THEN pending ELSE WriteFileMessage
    /\ UNCHANGED <<input, output, cwarnings>>

\* await checkCompatibility({ ...customConfig, dir: tempDir }) resolves
CheckCompatibilityReturns(cr) ==
    /\ cpc = "check"
    /\ cpc' = "rm"
    /\ pending' = cr
    /\ UNCHANGED <<input, output, cwarnings>>

\* await checkCompatibility(...) rejects
CheckCompatibilityThrows ==
    /\ cpc = "check"
    /\ cpc' = "cleanup"
    /\ pending' = CompatibilityMessage
    /\ UNCHANGED <<input, output, cwarnings>>

\* await fs.rm(tempDir, ...) of the try block, then convert, summarize, return
RemoveTempDir(ok) ==
    /\ cpc = "rm"
    /\ IF ok
       THEN /\ output' = SuccessResult(input.filePath, convertCompatibilityResult(pending))
            /\ cpc' = "returned"
            /\ pending' = NotCalled
       ELSE /\ cpc' = "cleanup"
            /\ pending' = RmMessage
            /\ UNCHANGED output
    /\ UNCHANGED <<input, cwarnings>>

\* the inner catch block: fs.rm again (a failure is only warned about),
\* throw error, and the outer catch block
Cleanup(ok) ==
    /\ cpc = "cleanup"
    /\ cwarnings' = IF ok THEN cwarnings ELSE cwarnings + 1
    /\ CustomFails(pending)
    /\ UNCHANGED input

InitCustom ==
    /\ input \in CustomInputs
    /\ output = NotCalled
    /\ cpc = "idle" /\ pending = NotCalled /\ cwarnings = 0
    /\ IdleFiles /\ IdleSelect /\ IdleMain /\ IdleAgg /\ IdleExtra

NextCustom ==
    \/ CustomConfigCall /\ UNCHANGED <<fileVars, selVars, mainVars, aggVars, extraVars>>
    \/ \E ok \in BOOLEAN : Mkdir(ok) /\ UNCHANGED <<fileVars, selVars, mainVars, aggVars, extraVars>>
    \/ \E ok \in BOOLEAN : WriteFile(ok) /\ UNCHANGED <<fileVars, selVars, mainVars, aggVars, extraVars>>
    \/ \E cr \in CompatibilityResults :
          CheckCompatibilityReturns(cr) /\ UNCHANGED <<fileVars, selVars, mainVars, aggVars, extraVars>>
    \/ CheckCompatibilityThrows /\ UNCHANGED <<fileVars, selVars, mainVars, aggVars, extraVars>>
    \/ \E ok \in BOOLEAN :
          RemoveTempDir(ok) /\ UNCHANGED <<fileVars, selVars, mainVars, aggVars, extraVars>>
    \/ \E ok \in BOOLEAN : Cleanup(ok) /\ UNCHANGED <<fileVars, selVars, mainVars, aggVars, extraVars>>

----------------------------------------------------------------------------
(* SpecAnalyze: a run of analyzeProject / analyzeFiles, or one call of     *)
(* analyzeWithCustomConfig                                                  *)

InitAnalyze == Init \/ InitCustom

NextAnalyze == Next \/ NextCustom

SpecAnalyze == InitAnalyze /\ [][NextAnalyze]_vars

----------------------------------------------------------------------------
(* Claims about analyzeFile / analyzeWithCustomConfig (SpecAnalyze) *)

\* a FileAnalysisResult that reports a failure: no issues, all-zero summary
IsFailureResult(result) ==
    /\ result.error # Undefined
    /\ result.hasIssues = FALSE
    /\ result.issues = <<>>
    /\ result.summary = EmptySummary

\* C12: analyzeFile and analyzeWithCustomConfig never throw.  A checker
\* failure, a timeout or an invalid configuration comes back as a result with
\* error set, hasIssues false, no issues and an all-zero summary; such a result
\* is not counted in filesWithIssues, and every other file of the same
\* analyzeFiles call still gets its result.
C12_FailuresAreResults ==
    /\ \A i \in DOMAIN results :
          results[i].error # Undefined => IsFailureResult(results[i])
    /\ \A file \in Range(files) :
          (rpc # "idle" /\ file \notin Range(queue) /\ file \notin running)
             => \E i \in DOMAIN results : results[i].filePath = file
    /\ rpc = "reported" =>
          /\ analysis.filesWithIssues
                = CountIn(results, LAMBDA r : r.error = Undefined /\ r.issues # <<>>)
          /\ statistics.filesWithIssues = analysis.filesWithIssues
          /\ \A file \in Range(files) : \E i \in DOMAIN results : results[i].filePath = file
    /\ cpc \in {"off", "idle", "mkdir", "writeFile", "check", "rm", "cleanup", "returned"}
    /\ cpc = "returned" =>
          /\ output.filePath = input.filePath
          /\ input.customConfig # "valid" => output.error = ConfigMessage
          /\ output.error # Undefined => IsFailureResult(output)

\* a timeout and a checker failure next to a sibling file reported with issues
C12_Witness ==
    /\ rpc = "reported"
    /\ \E i, j, k \in DOMAIN results :
          /\ i < j /\ j < k
          /\ results[i].error = TimeoutMessage
          /\ results[j].error = CheckerMessage
          /\ results[k].hasIssues
    /\ analysis.filesWithIssues = 1

----------------------------------------------------------------------------
(* JavaScript numbers: exact rationals, the values a + s * sqrt(r) that     *)
(* Math.sqrt produces from them, NaN and Infinity                           *)

Abs(n) == IF n < 0 THEN 0 - n ELSE n

RECURSIVE GCD(_, _)
GCD(a, b) == IF b = 0 THEN a ELSE GCD(b, a % b)

\* the rational n / d in lowest terms, d # 0
Rat(n, d) ==
    LET g == GCD(Abs(n), Abs(d))
        sign == IF d < 0 THEN 0 - 1 ELSE 1
    IN [num |-> (sign * n) \div g, den |-> (sign * d) \div g]

NaN == [nan |-> TRUE]
Infinity == [infinity |-> TRUE]

RatZero == Rat(0, 1)
RatOne == Rat(1, 1)

RatSub(a, b) == Rat(a.num * b.den - b.num * a.den, a.den * b.den)
RatMul(a, b) == Rat(a.num * b.num, a.den * b.den)
RatLe(a, b) == a.num * b.den <= b.num * a.den
RatLt(a, b) == a.num * b.den < b.num * a.den

\* a / b on integers: 0 / 0 is NaN, a / 0 is Infinity for a > 0
Divide(a, b) ==
    IF b # 0 THEN Rat(a, b)
    ELSE IF a = 0 THEN NaN ELSE Infinity

IsRat(x) == DOMAIN x = {"num", "den"}

\* x * 100 on a rational, NaN or Infinity
Times100(x) == IF IsRat(x) THEN RatMul(x, Rat(100, 1)) ELSE x

\* Math.ceil of a rational
Ceil(a) ==
    IF a.num % a.den = 0 THEN a.num \div a.den ELSE (a.num \div a.den) + 1

\* the real number rat + sign * sqrt(root), root >= 0, sign in {-1, 0, 1}
Real(rat, sign, root) ==
    IF sign = 0 \/ root = RatZero
    THEN [rat |-> rat, sign |-> 0, root |-> RatZero]
    ELSE [rat |-> rat, sign |-> sign, root |-> root]

RealZero == Real(RatZero, 0, RatZero)

IsReal(x) == DOMAIN x = {"rat", "sign", "root"}

\* x <= c and c <= x for a real x and a rational c, decided on squares
RealLeRat(x, c) ==
    LET d == RatSub(c, x.rat)
    IN CASE x.sign = 0 -> RatLe(RatZero, d)
         [] x.sign = 1 -> RatLe(RatZero, d) /\ RatLe(x.root, RatMul(d, d))
         [] OTHER -> RatLe(RatZero, d) \/ RatLe(RatMul(d, d), x.root)

RatLeReal(c, x) ==
    LET d == RatSub(c, x.rat)
    IN CASE x.sign = 0 -> RatLe(d, RatZero)
         [] x.sign = 1 -> RatLe(d, RatZero) \/ RatLe(RatMul(d, d), x.root)
         [] OTHER -> RatLe(d, RatZero) /\ RatLe(x.root, RatMul(d, d))

\* x * 100 on a real or NaN
RealTimes100(x) ==
    IF IsReal(x)
    THEN Real(RatMul(x.rat, Rat(100, 1)), x.sign, RatMul(x.root, Rat(10000, 1)))
    ELSE x

----------------------------------------------------------------------------
(* utils: calculateConfidenceInterval, calculateRequiredSampleSize *)

\* const z = 1.96
ZValue == Rat(196, 100)

\* the lower bound left unclamped
MaxZeroUnclamped(x) == x

\* Math.max(0, x) and Math.min(1, x); NaN if x is NaN
MaxZero(x) ==
    IF ~IsReal(x) THEN NaN
    ELSE IF RatLeReal(RatZero, x) THEN x ELSE RealZero

MinOne(x) ==
    IF ~IsReal(x) THEN NaN
    ELSE IF RealLeRat(x, RatOne) THEN x ELSE Real(RatOne, 0, RatZero)

\* z * Math.sqrt(v): NaN for v < 0
ZTimesSqrt(v) ==
    IF RatLt(v, RatZero) THEN NaN
    ELSE Real(RatZero, 1, RatMul(RatMul(ZValue, ZValue), v))

\* p - margin and p + margin
Offset(p, sign, margin) ==
    IF ~IsReal(margin) THEN NaN ELSE Real(p, sign * margin.sign, margin.root)

calculateConfidenceInterval(successes, total, confidenceLevel) ==
    IF total = 0 THEN [lower |-> RealZero, upper |-> RealZero, margin |-> RealZero]
    ELSE LET p == Rat(successes, total)
             margin == ZTimesSqrt(RatMul(RatMul(p, RatSub(RatOne, p)), Rat(1, total)))
         IN [lower |-> MaxZero(Offset(p, 0 - 1, margin)),
             upper |-> MinOne(Offset(p, 1, margin)),
             margin |-> margin]

\* Math.ceil((z * z * p * (1 - p)) / (marginOfError * marginOfError)), p = 0.5;
\* a zero margin divides by zero
calculateRequiredSampleSize(confidenceLevel, marginOfError) ==
    LET p == Rat(1, 2)
        numerator == RatMul(RatMul(ZValue, ZValue), RatMul(p, RatSub(RatOne, p)))
        square == RatMul(marginOfError, marginOfError)
    IN IF square = RatZero THEN Infinity
       ELSE Ceil(Rat(numerator.num * square.den, numerator.den * square.num))

----------------------------------------------------------------------------
(* generateAnalysisSummary: statistics block, aggregateIssueCategories,     *)
(* getTopIssues.  A Record<string, number> whose key order matters is the   *)
(* list of its entries in insertion order.                                  *)

MaxSummaryResults == 2
MaxErrors == 2

\* .slice(0, 10) of getTopIssues
TopIssuesCount == 10

\* confidenceLevel = 0.95, the default parameter value
DefaultConfidenceLevel == Rat(95, 100)

Entry(key, value) == [key |-> key, value |-> value]

HasKey(entries, key) == \E i \in DOMAIN entries : entries[i].key = key

\* obj[key] = (obj[key] ?? 0) + count
EntriesAdd(entries, key, count) ==
    IF HasKey(entries, key)
    THEN [i \in DOMAIN entries |->
            IF entries[i].key = key THEN Entry(key, entries[i].value + count)
            ELSE entries[i]]
    ELSE Append(entries, Entry(key, count))

\* for (const [key, count] of Object.entries(record)) obj[key] = ...
RECURSIVE AddAll(_, _)
AddAll(obj, record) ==
    IF record = <<>> THEN obj
    ELSE AddAll(EntriesAdd(obj, Head(record).key, Head(record).value), Tail(record))

\* for (const result of results) over result.statistics.categories
RECURSIVE SumCategories(_, _)
SumCategories(rs, obj) ==
    IF rs = <<>> THEN obj
    ELSE SumCategories(Tail(rs), AddAll(obj, Head(rs).statistics.categories))

\* for (const result of results) over result.statistics.issueTypes
RECURSIVE SumIssueTypes(_, _)
SumIssueTypes(rs, obj) ==
    IF rs = <<>> THEN obj
    ELSE SumIssueTypes(Tail(rs), AddAll(obj, Head(rs).statistics.issueTypes))

\* the stable sort with comparator ([, a], [, b]) => b - a
RECURSIVE InsertByCount(_, _)
InsertByCount(sorted, x) ==
    IF sorted = <<>> THEN <<x>>
    ELSE IF Head(sorted).value >= x.value
         THEN <<Head(sorted)>> \o InsertByCount(Tail(sorted), x)
         ELSE <<x>> \o sorted

RECURSIVE SortByCountFrom(_, _)
SortByCountFrom(sorted, rest) ==
    IF rest = <<>> THEN sorted
    ELSE SortByCountFrom(InsertByCount(sorted, Head(rest)), Tail(rest))

SortByCount(entries) == SortByCountFrom(<<>>, entries)

aggregateIssueCategories(rs) == SortByCount(SumCategories(rs, <<>>))

getTopIssues(rs) == Slice(SortByCount(SumIssueTypes(rs, <<>>)), TopIssuesCount)

\* the statistics block with the denominator taken from the analyzed projects only
SummaryStatisticsOverAnalyzed(rs, es) ==
    LET projectsWithIssues == CountIn(rs, LAMBDA r : r.statistics.filesWithIssues > 0)
        totalFiles == SumSeq([i \in DOMAIN rs |-> rs[i].analysis.totalFiles])
        totalIssues == SumSeq([i \in DOMAIN rs |-> rs[i].statistics.totalIssues])
        confidenceInterval ==
            calculateConfidenceInterval(projectsWithIssues, Len(rs), DefaultConfidenceLevel)
    IN [issuePrevalence |->
           [percentage |-> Times100(Divide(projectsWithIssues, Len(rs))),
            confidenceInterval |->
               [lower |-> RealTimes100(confidenceInterval.lower),
                upper |-> RealTimes100(confidenceInterval.upper),
                margin |-> RealTimes100(confidenceInterval.margin)]],
        averageIssuesPerProject |-> Divide(totalIssues, Len(rs)),
        averageIssuesPerFile |-> Divide(totalIssues, totalFiles)]

\* the statistics block of generateAnalysisSummary(results, errors)
SummaryStatistics(rs, es) ==
    LET totalProjects == Len(rs) + Len(es)
        projectsWithIssues == CountIn(rs, LAMBDA r : r.statistics.filesWithIssues > 0)
        totalFiles == SumSeq([i \in DOMAIN rs |-> rs[i].analysis.totalFiles])
        totalIssues == SumSeq([i \in DOMAIN rs |-> rs[i].statistics.totalIssues])
        confidenceInterval ==
            calculateConfidenceInterval(projectsWithIssues, totalProjects,
                                        DefaultConfidenceLevel)
    IN [issuePrevalence |->
           [percentage |-> Times100(Divide(projectsWithIssues, totalProjects)),
            confidenceInterval |->
               [lower |-> RealTimes100(confidenceInterval.lower),
                upper |-> RealTimes100(confidenceInterval.upper),
                margin |-> RealTimes100(confidenceInterval.margin)]],
        averageIssuesPerProject |-> Divide(totalIssues, Len(rs)),
        averageIssuesPerFile |-> Divide(totalIssues, totalFiles)]

----------------------------------------------------------------------------
(* SpecSummary: generateAnalysisSummary applied to results and errors *)

ProjectResult(totalFiles, filesWithIssues, categories, issueTypes) ==
    [analysis |-> [totalFiles |-> totalFiles],
     statistics |->
        [filesWithIssues |-> filesWithIssues,
         totalIssues |-> SumSeq([i \in DOMAIN issueTypes |-> issueTypes[i].value]),
         categories |-> categories,
         issueTypes |-> issueTypes]]

\* projects as analyzeProject reports them: without files, without issues,
\* and with issues whose types were met in one order or the other
SampleProjects ==
    {ProjectResult(0, 0, <<>>, <<>>),
     ProjectResult(2, 0, <<>>, <<>>),
     ProjectResult(2, 1, <<Entry("compatibility", 2)>>,
                   <<Entry("syntax", 1), Entry("api", 1)>>),
     ProjectResult(1, 1, <<Entry("performance", 1), Entry("compatibility", 1)>>,
                   <<Entry("api", 1), Entry("syntax", 1)>>),
     ProjectResult(3, 2, <<Entry("compatibility", 3)>>,
                   <<Entry("unknown", 2), Entry("syntax", 1)>>)}

AnalysisErrors == {Repeat([error |-> "Analysis failed"], n) : n \in 0..MaxErrors}

SummaryInputs ==
    [results : SeqsUpTo(SampleProjects, MaxSummaryResults), errors : AnalysisErrors]

GenerateSummary ==
    /\ output = NotCalled
    /\ output' =
         [overview |-> generateAnalysisSummary(input.results, input.errors),
          statistics |-> SummaryStatistics(input.results, input.errors),
          issueCategories |-> aggregateIssueCategories(input.results),
          topIssues |-> getTopIssues(input.results)]
    /\ UNCHANGED input

InitSummary ==
    /\ input \in SummaryInputs
    /\ output = NotCalled
    /\ IdleFiles /\ IdleSelect /\ IdleMain /\ IdleAgg /\ IdleCustom /\ IdleExtra

NextSummary == GenerateSummary /\ UNCHANGED <<fileVars, selVars, mainVars, aggVars, customVars, extraVars>>

SpecSummary == InitSummary /\ [][NextSummary]_vars

----------------------------------------------------------------------------
(* Claims about generateAnalysisSummary (SpecSummary) *)

ProjectsWithIssues ==
    Cardinality({i \in DOMAIN input.results :
                    input.results[i].statistics.filesWithIssues > 0})

SummedIssues ==
    SumSeq([i \in DOMAIN input.results |-> input.results[i].statistics.totalIssues])

SummedFiles ==
    SumSeq([i \in DOMAIN input.results |-> input.results[i].analysis.totalFiles])

\* C13: the prevalence percentage and its interval are taken over
\* totalProjects = analyzed + failed: percentage * totalProjects
\* = 100 * projectsWithIssues, the interval is calculateConfidenceInterval of
\* (projectsWithIssues, totalProjects) in percent, and failedProjects is
\* reported in the overview.  (With no project at all the quotient 0 / 0 is
\* what the expression of the claim comes to as well, NaN.)
C13_PrevalenceOverAllProjects ==
    output # NotCalled =>
       LET totalProjects == Len(input.results) + Len(input.errors)
           prevalence == output.statistics.issuePrevalence
           interval == calculateConfidenceInterval(ProjectsWithIssues, totalProjects,
                                                   DefaultConfidenceLevel)
       IN /\ output.overview.totalProjects = totalProjects
          /\ output.overview.failedProjects = Len(input.errors)
          /\ output.overview.analyzedProjects = Len(input.results)
          /\ totalProjects > 0 =>
                /\ IsRat(prevalence.percentage)
                /\ prevalence.percentage.num * totalProjects
                      = 100 * ProjectsWithIssues * prevalence.percentage.den
          /\ totalProjects = 0 => prevalence.percentage = NaN
          /\ prevalence.confidenceInterval.lower = RealTimes100(interval.lower)
          /\ prevalence.confidenceInterval.upper = RealTimes100(interval.upper)
          /\ prevalence.confidenceInterval.margin = RealTimes100(interval.margin)

\* one project with issues, one without, one failed: a third, not a half
C13_Witness ==
    /\ output # NotCalled
    /\ Len(input.results) = 2
    /\ Len(input.errors) = 1
    /\ ProjectsWithIssues = 1
    /\ output.statistics.issuePrevalence.percentage = Rat(100, 3)

\* C14: averageIssuesPerProject is 0 when no project was analyzed and
\* averageIssuesPerFile is 0 when the summed file count is 0, never NaN;
\* otherwise they are totalIssues / analyzed projects and totalIssues / files.
C14_AveragesGuardZero ==
    output # NotCalled =>
       /\ IsRat(output.statistics.averageIssuesPerProject)
       /\ IsRat(output.statistics.averageIssuesPerFile)
       /\ output.statistics.averageIssuesPerProject
             = IF Len(input.results) = 0 THEN RatZero
               ELSE Rat(SummedIssues, Len(input.results))
       /\ output.statistics.averageIssuesPerFile
             = IF SummedFiles = 0 THEN RatZero ELSE Rat(SummedIssues, SummedFiles)

\* string order of the keys of the sample projects
KeyRank(key) ==
    CASE key = "api" -> 1 [] key = "compatibility" -> 2 [] key = "performance" -> 3
      [] key = "syntax" -> 4 [] key = "unknown" -> 5

\* the sum of the counts the projects report for a key of one of their histograms
KeySum(key, Hist(_)) ==
    SumSeq([i \in DOMAIN input.results |->
               SumSeq([j \in DOMAIN Hist(input.results[i]) |->
                          IF Hist(input.results[i])[j].key = key
                          THEN Hist(input.results[i])[j].value ELSE 0])])

CategoriesOf(r) == r.statistics.categories
IssueTypesOf(r) == r.statistics.issueTypes

KeysOf(Hist(_)) ==
    UNION {{Hist(input.results[i])[j].key : j \in DOMAIN Hist(input.results[i])} :
              i \in DOMAIN input.results}

Reorderings(s) ==
    {[i \in DOMAIN s |-> s[p[i]]] :
        p \in {q \in [DOMAIN s -> DOMAIN s] : \A i, j \in DOMAIN s : i # j => q[i] # q[j]}}

\* C15: the category and type histograms are the per-key sums of the
\* per-project histograms; topIssues is the 10 highest-count types in
\* descending count, ties by key ascending; any reordering of the results
\* gives histograms of equal values and the same topIssues in the same order.
C15_OrderIndependentTopIssues ==
    output # NotCalled =>
       /\ {e.key : e \in Range(output.issueCategories)} = KeysOf(CategoriesOf)
       /\ \A e \in Range(output.issueCategories) : e.value = KeySum(e.key, CategoriesOf)
       /\ \A e \in Range(output.topIssues) : e.value = KeySum(e.key, IssueTypesOf)
       /\ Len(output.topIssues) = Min(TopIssuesCount, Cardinality(KeysOf(IssueTypesOf)))
       /\ \A key \in KeysOf(IssueTypesOf) :
             HasKey(output.topIssues, key)
                \/ \A e \in Range(output.topIssues) :
                      e.value >= KeySum(key, IssueTypesOf)
       /\ \A i, j \in DOMAIN output.topIssues :
             i < j =>
                \/ output.topIssues[i].value > output.topIssues[j].value
                \/ /\ output.topIssues[i].value = output.topIssues[j].value
                   /\ KeyRank(output.topIssues[i].key) < KeyRank(output.topIssues[j].key)
       /\ \A rs \in Reorderings(input.results) :
             /\ getTopIssues(rs) = output.topIssues
             /\ Range(aggregateIssueCategories(rs)) = Range(output.issueCategories)

----------------------------------------------------------------------------
(* SpecStats: calculateConfidenceInterval and calculateRequiredSampleSize   *)
(* applied to their arguments                                               *)

MaxTotal == 4

ConfidenceLevels == {Rat(90, 100), Rat(95, 100), Rat(99, 100)}

\* the default parameter value marginOfError = 0.05
DefaultMarginOfError == Rat(5, 100)

\* what callers and tests pass to calculateRequiredSampleSize
SampleSizeArguments == {Rat(1, 100), Rat(1, 10), Rat(95, 100)}

IntervalInputs ==
    {[fn |-> "calculateConfidenceInterval", successes |-> successes, total |-> total,
      confidenceLevel |-> confidenceLevel] :
        total \in 0..MaxTotal, successes \in (0 - 1)..(MaxTotal + 1),
        confidenceLevel \in ConfidenceLevels}

SampleSizeInputs ==
    {[fn |-> "calculateRequiredSampleSize", args |-> args] :
        args \in SeqsUpTo(SampleSizeArguments, 2)}

\* the call with its positional arguments; a parameter not passed takes its default
RequiredSampleSizeOf(args) ==
    calculateRequiredSampleSize(
        IF Len(args) >= 1 THEN args[1] ELSE DefaultConfidenceLevel,
        IF Len(args) >= 2 THEN args[2] ELSE DefaultMarginOfError)

ConfidenceIntervalCall ==
    /\ output = NotCalled
    /\ input.fn = "calculateConfidenceInterval"
    /\ output' = calculateConfidenceInterval(input.successes, input.total,
                                             input.confidenceLevel)
    /\ UNCHANGED input

RequiredSampleSizeCall ==
    /\ output = NotCalled
    /\ input.fn = "calculateRequiredSampleSize"
    /\ output' = [size |-> RequiredSampleSizeOf(input.args)]
    /\ UNCHANGED input

InitStats ==
    /\ input \in {i \in IntervalInputs : i.successes <= i.total + 1} \cup SampleSizeInputs
    /\ output = NotCalled
    /\ IdleFiles /\ IdleSelect /\ IdleMain /\ IdleAgg /\ IdleCustom /\ IdleExtra

NextStats ==
    \/ ConfidenceIntervalCall /\ UNCHANGED <<fileVars, selVars, mainVars, aggVars, customVars, extraVars>>
    \/ RequiredSampleSizeCall /\ UNCHANGED <<fileVars, selVars, mainVars, aggVars, customVars, extraVars>>

SpecStats == InitStats /\ [][NextStats]_vars

----------------------------------------------------------------------------
(* Claims about the statistics utilities (SpecStats) *)

IntervalReturned == output # NotCalled /\ input.fn = "calculateConfidenceInterval"

SampleSizeReturned == output # NotCalled /\ input.fn = "calculateRequiredSampleSize"

InContract == 0 <= input.successes /\ input.successes <= input.total

C17_CriticalValueFollowsLevel ==
    /\ (IntervalReturned /\ 0 < input.successes /\ input.successes < input.total) =>
          \A level \in ConfidenceLevels \ {input.confidenceLevel} :
             LET other == calculateConfidenceInterval(input.successes, input.total, level)
             IN /\ other.margin # output.margin
                /\ RatLt(input.confidenceLevel, level)
                      => RatLe(output.margin.root, other.margin.root)
    /\ (SampleSizeReturned /\ Len(input.args) = 2) =>
          \A level \in ConfidenceLevels :
             RatLt(input.args[1], level)
                => output.size <= calculateRequiredSampleSize(level, input.args[2])

\* C18: the required sample size is the positive integer
\* ceil(z^2 * 0.25 / marginOfError^2), a smaller margin never gives a smaller
\* size, and called as the unit test calls it, with the margin as the only
\* argument, the size for a 1% margin is larger than the size for a 10% margin.
C18_SampleSizeGrowsAsMarginShrinks ==
    SampleSizeReturned =>
       /\ output.size \in Nat /\ output.size > 0
       /\ Len(input.args) = 2 =>
             /\ output.size
                   = Ceil(Rat(196 * 196 * input.args[2].den * input.args[2].den,
                              4 * 100 * 100 * input.args[2].num * input.args[2].num))
             /\ \A margin \in SampleSizeArguments :
                   RatLt(margin, input.args[2])
                      => calculateRequiredSampleSize(input.args[1], margin) >= output.size
       /\ input.args = <<Rat(1, 100)>> =>
             output.size > RequiredSampleSizeOf(<<Rat(1, 10)>>)

\* an error outcome of a call
IsError(out) == DOMAIN out = {"error"}

\* C19: successes < 0 or successes > total is a contract error: the call ends
\* in an error, not in an interval.
C19_ContractErrorOutsideRange ==
    (IntervalReturned /\ ~InContract) => IsError(output)

----------------------------------------------------------------------------
(* config: validateConfig.  Numbers are rationals or NaN (parseInt of a     *)
(* command line option that is not a number); a string tested by a regular  *)
(* expression is the list of its characters.                                *)

\* a < b, a <= b, a >= b on numbers: false when either is NaN
JsLt(a, b) == IsRat(a) /\ IsRat(b) /\ RatLt(a, b)
JsLe(a, b) == IsRat(a) /\ IsRat(b) /\ RatLe(a, b)
JsGe(a, b) == IsRat(a) /\ IsRat(b) /\ RatLe(b, a)

Num(n) == Rat(n, 1)

Digits == {"0", "1", "2", "3", "4", "5", "6", "7", "8", "9"}

\* /^\d{4}-\d{2}-\d{2}$/.test(str)
MatchesDatePattern(str) ==
    /\ Len(str) = 10
    /\ \A i \in {1, 2, 3, 4, 6, 7, 9, 10} : str[i] \in Digits
    /\ str[5] = "-" /\ str[8] = "-"

\* !config.github.token
TokenMissing(token) == token = Undefined \/ token = ""

Returned == [returned |-> TRUE]
Thrown(message) == [error |-> message]

\* validateConfig in the variant that checks the token and the sample size only
validateRequiredConfig(config) ==
    IF TokenMissing(config.token)
    THEN Thrown("GITHUB_TOKEN environment variable is required")
    ELSE IF JsLt(config.sampleSize, Num(100))
    THEN Thrown("Sample size should be at least 100 for meaningful results")
    ELSE Returned

validateConfig(config) ==
    IF TokenMissing(config.token)
    THEN Thrown("GITHUB_TOKEN environment variable is required")
    ELSE IF JsLt(config.sampleSize, Num(100))
    THEN Thrown("Sample size should be at least 100 for meaningful results")
    ELSE IF JsLe(config.confidenceLevel, Num(0)) \/ JsGe(config.confidenceLevel, Num(1))
    THEN Thrown("Confidence level must be between 0 and 1")
    ELSE IF JsLe(config.marginOfError, Num(0)) \/ JsGe(config.marginOfError, Num(1))
    THEN Thrown("Margin of error must be between 0 and 1")
    ELSE IF JsLe(config.minStars, Num(0))
    THEN Thrown("Minimum stars must be greater than 0")
    ELSE IF JsLe(config.minForks, Num(0))
    THEN Thrown("Minimum forks must be greater than 0")
    ELSE IF ~MatchesDatePattern(config.createdAfter)
    THEN Thrown("Created after date must be in YYYY-MM-DD format")
    ELSE IF JsLe(config.maxFilesPerProject, Num(0))
    THEN Thrown("Maximum files per project must be greater than 0")
    ELSE IF JsLe(config.maxFileSize, Num(0))
    THEN Thrown("Maximum file size must be greater than 0")
    ELSE IF JsLe(config.analysisTimeout, Num(0))
    THEN Thrown("Analysis timeout must be greater than 0")
    ELSE IF JsLe(config.concurrency, Num(0))
    THEN Thrown("Concurrency must be greater than 0")
    ELSE Returned

----------------------------------------------------------------------------
(* SpecConfig: validateConfig applied to a configuration *)

\* the values of a field: the default of the config object first, then what
\* the tests and the command line options set
Configs ==
    [token : {"ghp_token", "", Undefined},
     sampleSize : {Num(1000), Num(100), Num(50), NaN},
     confidenceLevel : {Rat(95, 100), Num(0), Num(1)},
     marginOfError : {Rat(5, 100), Num(0), Num(1)},
     minStars : {Num(100), Num(0), NaN},
     minForks : {Num(10), Num(0 - 1)},
     createdAfter : {<<"2", "0", "2", "0", "-", "0", "1", "-", "0", "1">>,
                     <<"2", "0", "2", "0", "/", "0", "1", "/", "0", "1">>,
                     <<"2", "0", "2", "0", "-", "1", "-", "1">>},
     maxFilesPerProject : {Num(100), Num(0)},
     maxFileSize : {Num(1048576), Num(0 - 1)},
     analysisTimeout : {Num(30000), Num(0)},
     concurrency : {Num(5), Num(0)}]

ConfigInputs == [variant : {"full", "required"}, config : Configs]

ValidateConfigCall ==
    /\ output = NotCalled
    /\ input.variant = "full"
    /\ output' = validateConfig(input.config)
    /\ UNCHANGED input

ValidateRequiredConfigCall ==
    /\ output = NotCalled
    /\ input.variant = "required"
    /\ output' = validateRequiredConfig(input.config)
    /\ UNCHANGED input

InitConfig ==
    /\ input \in ConfigInputs
    /\ output = NotCalled
    /\ IdleFiles /\ IdleSelect /\ IdleMain /\ IdleAgg /\ IdleCustom /\ IdleExtra

NextConfig ==
    \/ ValidateConfigCall /\ UNCHANGED <<fileVars, selVars, mainVars, aggVars, customVars, extraVars>>
    \/ ValidateRequiredConfigCall
          /\ UNCHANGED <<fileVars, selVars, mainVars, aggVars, customVars, extraVars>>

SpecConfig == InitConfig /\ [][NextConfig]_vars

----------------------------------------------------------------------------
(* Claims about validateConfig (SpecConfig) *)

\* a number that is greater than zero (NaN is not)
Positive(x) == IsRat(x) /\ RatLt(RatZero, x)

\* the checks of the claim in their order, each with the error of its violation
ConfigChecks(config) ==
    <<[ok |-> config.token # Undefined /\ config.token # "",
       message |-> "GITHUB_TOKEN environment variable is required"],
      [ok |-> IsRat(config.sampleSize) /\ RatLe(Num(100), config.sampleSize),
       message |-> "Sample size should be at least 100 for meaningful results"],
      [ok |-> Positive(config.confidenceLevel) /\ JsLt(config.confidenceLevel, Num(1)),
       message |-> "Confidence level must be between 0 and 1"],
      [ok |-> Positive(config.marginOfError) /\ JsLt(config.marginOfError, Num(1)),
       message |-> "Margin of error must be between 0 and 1"],
      [ok |-> Positive(config.minStars),
       message |-> "Minimum stars must be greater than 0"],
      [ok |-> Positive(config.minForks),
       message |-> "Minimum forks must be greater than 0"],
      [ok |-> MatchesDatePattern(config.createdAfter),
       message |-> "Created after date must be in YYYY-MM-DD format"],
      [ok |-> Positive(config.maxFilesPerProject),
       message |-> "Maximum files per project must be greater than 0"],
      [ok |-> Positive(config.maxFileSize),
       message |-> "Maximum file size must be greater than 0"],
      [ok |-> Positive(config.analysisTimeout),
       message |-> "Analysis timeout must be greater than 0"],
      [ok |-> Positive(config.concurrency),
       message |-> "Concurrency must be greater than 0"]>>

\* C20: validateConfig returns true only when every check passes; otherwise it
\* throws the error of the first check that fails, in the order of the checks.
C20_ValidConfigOrFirstError ==
    output # NotCalled =>
       LET checks == ConfigChecks(input.config)
           failed == {i \in DOMAIN checks : ~checks[i].ok}
       IN IF failed = {} THEN output = Returned
          ELSE output = Thrown(checks[CHOOSE i \in failed : \A j \in failed : i <= j].message)

----------------------------------------------------------------------------
(* utils: retry(fn, maxRetries, baseDelay)                                 *)

MaxRetries == 3

BaseDelays == {10, 100, 1000}

\* what fn may come to: it resolves with a value or rejects with an error
FnValues == {"success"}
FnErrors == {"Temporary failure", "Persistent failure"}

Resolved(value) == [value |-> value]

\* the backoff left constant
BackoffDelayConstant(baseDelay, k) == baseDelay

\* const delay = baseDelay * Math.pow(2, attempt - 1)
BackoffDelay(baseDelay, k) == baseDelay * 2^(k - 1)

\* the for loop at its condition, attempt being a: the body begins by
\* invoking fn, and past the loop comes throw new Error("Retry failed")
RetryLoop(a) ==
    /\ attempt' = a
    /\ IF a <= input.maxRetries
       THEN /\ fnCalls' = fnCalls + 1
            /\ rtpc' = "awaiting"
            /\ UNCHANGED output
       ELSE /\ output' = Thrown("Retry failed")
            /\ rtpc' = "thrown"
            /\ UNCHANGED fnCalls

\* retry(fn, maxRetries, baseDelay) is called and runs to its first await
RetryCall ==
    /\ rtpc = "idle"
    /\ RetryLoop(1)
    /\ UNCHANGED <<input, fnLog, delays>>

\* await fn() resolves: return the value
FnResolves(value) ==
    /\ rtpc = "awaiting"
    /\ fnLog' = Append(fnLog, Resolved(value))
    /\ output' = Resolved(value)
    /\ rtpc' = "returned"
    /\ UNCHANGED <<input, attempt, fnCalls, delays>>

\* await fn() rejects: rethrow on the last attempt, else sleep(delay)
FnRejects(error) ==
    /\ rtpc = "awaiting"
    /\ fnLog' = Append(fnLog, Thrown(error))
    /\ IF attempt = input.maxRetries
       THEN /\ output' = Thrown(error)
            /\ rtpc' = "thrown"
            /\ UNCHANGED delays
       ELSE /\ delays' = Append(delays, BackoffDelay(input.baseDelay, attempt))
            /\ rtpc' = "sleeping"
            /\ UNCHANGED output
    /\ UNCHANGED <<input, attempt, fnCalls>>

\* sleep(delay) elapses: attempt++ and the loop condition again
SleepElapses ==
    /\ rtpc = "sleeping"
    /\ RetryLoop(attempt + 1)
    /\ UNCHANGED <<input, fnLog, delays>>

RetryInputs == [maxRetries : 0..MaxRetries, baseDelay : BaseDelays]

InitRetry ==
    /\ input \in RetryInputs
    /\ output = NotCalled
    /\ rtpc = "idle" /\ attempt = 0 /\ fnCalls = 0 /\ fnLog = <<>> /\ delays = <<>>
    /\ IdleFiles /\ IdleSelect /\ IdleMain /\ IdleAgg /\ IdleCustom /\ IdleBatch
    /\ IdleTemp

NextRetry ==
    \/ RetryCall /\ UNCHANGED <<fileVars, selVars, mainVars, aggVars, customVars, batchVars, tempVars>>
    \/ \E value \in FnValues :
          FnResolves(value) /\ UNCHANGED <<fileVars, selVars, mainVars, aggVars, customVars, batchVars, tempVars>>
    \/ \E error \in FnErrors :
          FnRejects(error) /\ UNCHANGED <<fileVars, selVars, mainVars, aggVars, customVars, batchVars, tempVars>>
    \/ SleepElapses /\ UNCHANGED <<fileVars, selVars, mainVars, aggVars, customVars, batchVars, tempVars>>

SpecRetry == InitRetry /\ [][NextRetry]_vars

----------------------------------------------------------------------------
(* C21 *)

IsRejection(outcome) == "error" \in DOMAIN outcome

\* the invocations of fn that have settled all failed, except possibly the last
FailedBefore(n) == \A k \in 1..(n - 1) : IsRejection(fnLog[k])

\* C21: with maxRetries >= 1, retry invokes fn one call at a time, at most
\* maxRetries times; it returns the value of the first invocation that
\* succeeds and invokes fn no more; if all maxRetries invocations fail it
\* rethrows the error of the last one; the k-th wait follows the k-th failure
\* and lasts baseDelay * 2^(k-1), and no wait follows the final failure.
C21_RetryBackoff ==
    (rtpc # "off" /\ input.maxRetries >= 1) =>
        /\ fnCalls <= input.maxRetries
        /\ fnCalls = Len(fnLog) + (IF rtpc = "awaiting" THEN 1 ELSE 0)
        /\ FailedBefore(Len(fnLog))
        /\ \A k \in DOMAIN delays : delays[k] = input.baseDelay * 2^(k - 1)
        /\ rtpc = "awaiting" => Len(delays) = fnCalls - 1
        /\ rtpc = "sleeping" =>
              /\ Len(delays) = fnCalls
              /\ fnCalls < input.maxRetries
              /\ IsRejection(fnLog[Len(fnLog)])
        /\ rtpc = "returned" =>
              /\ fnCalls >= 1
              /\ output = fnLog[fnCalls]
              /\ ~IsRejection(output)
              /\ Len(delays) = fnCalls - 1
        /\ rtpc = "thrown" =>
              /\ fnCalls = input.maxRetries
              /\ \A k \in 1..fnCalls : IsRejection(fnLog[k])
              /\ output = fnLog[fnCalls]
              /\ Len(delays) = input.maxRetries - 1

\* fn failed on every one of three attempts, the last with another error than
\* the one before, and retry rethrew after waiting twice
C21_Witness ==
    /\ rtpc = "thrown"
    /\ input.maxRetries = MaxRetries
    /\ fnCalls = MaxRetries
    /\ fnLog[MaxRetries] # fnLog[MaxRetries - 1]
    /\ output = fnLog[MaxRetries]
    /\ delays = <<input.baseDelay, 2 * input.baseDelay>>

----------------------------------------------------------------------------
(* C22, C25, C26: the scheduler of analyzeFiles (Spec) *)

TimedOut == {file \in Range(files) :
                \E i \in ResultsFor(file) : results[i].error = TimeoutMessage}

\* C22: a file whose analysis exceeded analysisTimeout has a failure result
\* with the 'Analysis timeout' error and its checker call is no longer
\* executing, so the checker calls executing never number more than concurrency.
C22_TimeoutTerminatesCall ==
    /\ \A file \in TimedOut : file \notin executing
    /\ Cardinality(executing) <= concurrency

\* C25: while the runner waits, the queue is never non-empty with fewer than
\* concurrency analyses running.
C25_NextStartsAtCompletion ==
    rpc = "sleeping" => ~(Len(queue) > 0 /\ Cardinality(running) < concurrency)

\* C26: at every suspension point of analyzeFiles each input file is in
\* exactly one of queue, running and results, so their sizes add up to the
\* number of input files.
C26_QueueRunningResultsPartition ==
    rpc \in {"sleeping", "returned", "reported"} =>
        /\ Len(queue) + Cardinality(running) + Len(results) = Len(files)
        /\ \A file \in Range(files) :
              /\ Cardinality(ResultsFor(file)) <= 1
              /\ Cardinality({i \in DOMAIN queue : queue[i] = file}) <= 1
              /\ (IF file \in Range(queue) THEN 1 ELSE 0)
                    + (IF file \in running THEN 1 ELSE 0)
                    + Cardinality(ResultsFor(file)) = 1

\* three files, one in each of the three places, after one analysis timed out
C26_Witness ==
    /\ rpc = "sleeping"
    /\ Len(queue) = 1 /\ Cardinality(running) = 1 /\ Len(results) = 1
    /\ results[1].error = TimeoutMessage

----------------------------------------------------------------------------
(* C23: the analysis main loop (SpecMain) *)

IsCritical(e) == "isCritical" \in DOMAIN e /\ e.isCritical

\* C23: a non-critical failure of a project is recorded in errors and the
\* loop goes on to every later project; the run stops early only at an error
\* classified as critical, and then it exits non-zero with no further project
\* attempted.
C23_OnlyCriticalStopsRun ==
    mpc # "off" =>
        /\ \A p \in 0..(mi - 1) : InResults(p) \/ InErrors(p)
        /\ \A i \in DOMAIN merrors :
              IsCritical(merrors[i]) => (i = Len(merrors) /\ mpc = "exited")
        /\ mpc = "exited" =>
              /\ mexit # 0
              /\ Len(merrors) > 0
              /\ IsCritical(merrors[Len(merrors)])
              /\ merrors[Len(merrors)].project = mi
              /\ attempted = mi + 1
        /\ mpc # "exited" =>
              /\ mexit = 0
              /\ attempted = mi + (IF mpc \in {"analyzing", "saving"} THEN 1 ELSE 0)
        /\ mpc = "done" => attempted = toAnalyze

\* the first project failed with a non-critical error, the second was then
\* attempted and failed with a critical one: the run exited with the third
\* project never attempted
C23_Witness ==
    /\ mpc = "exited"
    /\ mexit = 1
    /\ toAnalyze = 3
    /\ attempted = 2
    /\ Len(merrors) = 2
    /\ merrors[1].project = 0 /\ ~IsCritical(merrors[1])
    /\ merrors[2].project = 1 /\ IsCritical(merrors[2])

----------------------------------------------------------------------------
(* utils: parseRepositoryName(fullName); a string is its sequence of       *)
(* characters                                                              *)

MaxNameLen == 4

Chars == {"o", "r", "/"}

\* the value undefined where a string is expected
UndefinedString == <<Undefined>>

\* the index of the first "/" of str from position i on, or 0
RECURSIVE IndexOfSlash(_, _)
IndexOfSlash(str, i) ==
    IF i > Len(str) THEN 0
    ELSE IF str[i] = "/" THEN i
    ELSE IndexOfSlash(str, i + 1)

\* str.split("/"): always at least one part, empty parts included
RECURSIVE Split(_)
Split(str) ==
    LET k == IndexOfSlash(str, 1)
    IN IF k = 0 THEN <<str>>
       ELSE <<SubSeq(str, 1, k - 1)>> \o Split(SubSeq(str, k + 1, Len(str)))

\* parts[i] of a JavaScript array: undefined past the end
PartAt(parts, i) == IF i + 1 <= Len(parts) THEN parts[i + 1] ELSE UndefinedString

parseRepositoryName(fullName) ==
    LET parts == Split(fullName)
    IN [owner |-> PartAt(parts, 0), name |-> PartAt(parts, 1)]

FullNames == SeqsUpTo(Chars, MaxNameLen)

ParseRepositoryNameCall ==
    /\ output = NotCalled
    /\ output' = parseRepositoryName(input)
    /\ UNCHANGED input

InitParse ==
    /\ input \in FullNames
    /\ output = NotCalled
    /\ IdleFiles /\ IdleSelect /\ IdleMain /\ IdleAgg /\ IdleCustom /\ IdleExtra

NextParse ==
    ParseRepositoryNameCall
        /\ UNCHANGED <<fileVars, selVars, mainVars, aggVars, customVars, extraVars>>

SpecParse == InitParse /\ [][NextParse]_vars

----------------------------------------------------------------------------
(* C24 *)

\* the longest prefix of str without a "/"
RECURSIVE UpToSlash(_)
UpToSlash(str) ==
    IF str = <<>> \/ Head(str) = "/" THEN <<>>
    ELSE <<Head(str)>> \o UpToSlash(Tail(str))

\* C24: for a full name with a "/", owner is the segment before the first "/"
\* and name the segment after it (up to the next "/"); for a full name
\* without "/", the empty string included, owner is the empty string and
\* name is the whole input.
C24_OwnerAndName ==
    output # NotCalled =>
        LET k == IndexOfSlash(input, 1)
        IN IF k > 0
           THEN /\ output.owner = UpToSlash(input)
                /\ output.name = UpToSlash(SubSeq(input, k + 1, Len(input)))
           ELSE /\ output.owner = <<>>
                /\ output.name = input

----------------------------------------------------------------------------
(* analyzeProject of the analysis mains, and the loop body around it.      *)
(* A sampled project is what the analysis finds of it: whether the         *)
(* repository can be reached, how many of its files can be fetched and how *)
(* many of those have issues, its manifest, whether it builds and whether  *)
(* the checker's scan of the clone fails.                                  *)

MaxProjectFiles == 2

NotAccessibleMessage == "Repository not accessible"
CloneMessage == "Command failed: git clone"
ScanMessage == "es-guard failed"

ProjectWorlds ==
    {[accessible |-> a, files |-> n, filesWithIssues |-> k, manifest |-> m,
      builds |-> b, scanRejects |-> r] :
        a \in BOOLEAN, n \in 0..MaxProjectFiles, k \in 0..MaxProjectFiles,
        m \in Manifests, b \in BOOLEAN, r \in BOOLEAN}

\* the projects the variant tells apart: the content-fetching main neither
\* builds nor scans a clone
ProjectInputs ==
    {i \in [variant : {"contents", "clone"}, project : ProjectWorlds] :
        /\ i.project.filesWithIssues <= i.project.files
        /\ i.variant = "contents" => (i.project.builds /\ ~i.project.scanRejects)}

ProjectAnalysis(world) ==
    Resolved([analyzedFiles |-> world.files,
              filesWithIssues |-> world.filesWithIssues])

\* analyzeProject that fetches contents: null contents throw, files whose
\* content cannot be read are skipped, the rest go to analyzer.analyzeProject
analyzeProjectContents(world) ==
    IF ~world.accessible
    THEN Thrown(NotAccessibleMessage)
    ELSE ProjectAnalysis(world)

\* buildNextJSProject up to the installation of dependencies and the build
buildNextJSProject(world) ==
    LET manifest == world.manifest
    IN CASE manifest.kind = "notfound" -> Thrown("No package.json found")
         [] manifest.kind \in {"fetcherror", "unparseable"} ->
                Thrown("Unexpected token in JSON")
         [] manifest.kind = "parsed" ->
                IF "next" \notin manifest.dependencies \cup manifest.devDependencies
                THEN Thrown("Not a NextJS project")
                ELSE IF world.builds THEN Returned
                ELSE Thrown("Build failed")

\* analyzeProject that clones: execSync(git clone) throws, a build error is
\* caught and logged, then analyzer.analyzeProject(project, tempDir)
analyzeProjectClone(world) ==
    IF ~world.accessible
    THEN [outcome |-> Thrown(CloneMessage), buildWarnings |-> 0]
    ELSE [outcome |-> IF world.scanRejects THEN Thrown(ScanMessage)
                      ELSE ProjectAnalysis(world),
          buildWarnings |-> IF buildNextJSProject(world) = Returned THEN 0 ELSE 1]

\* the body of the main loop for one project, its saveJson resolving:
\* results.push(projectResult) or, in the catch block, errors.push(...)
LoopBody(outcome, buildWarnings) ==
    IF "error" \in DOMAIN outcome
    THEN [results |-> <<>>, errors |-> <<outcome.error>>,
          buildWarnings |-> buildWarnings]
    ELSE [results |-> <<outcome.value>>, errors |-> <<>>,
          buildWarnings |-> buildWarnings]

AnalyzeContentsProject ==
    /\ output = NotCalled
    /\ input.variant = "contents"
    /\ output' = LoopBody(analyzeProjectContents(input.project), 0)
    /\ UNCHANGED input

AnalyzeClonedProject ==
    /\ output = NotCalled
    /\ input.variant = "clone"
    /\ LET r == analyzeProjectClone(input.project)
       IN output' = LoopBody(r.outcome, r.buildWarnings)
    /\ UNCHANGED input

InitProject ==
    /\ input \in ProjectInputs
    /\ output = NotCalled
    /\ IdleFiles /\ IdleSelect /\ IdleMain /\ IdleAgg /\ IdleCustom /\ IdleExtra

NextProject ==
    \/ AnalyzeContentsProject
          /\ UNCHANGED <<fileVars, selVars, mainVars, aggVars, customVars, extraVars>>
    \/ AnalyzeClonedProject
          /\ UNCHANGED <<fileVars, selVars, mainVars, aggVars, customVars, extraVars>>

SpecProject == InitProject /\ [][NextProject]_vars

----------------------------------------------------------------------------
(* C27 *)

\* the manifest was read and names no "next" dependency
LacksTargetDependency(manifest) ==
    /\ manifest.kind = "parsed"
    /\ "next" \notin manifest.dependencies \cup manifest.devDependencies

HardFailure(world) ==
    \/ ~world.accessible
    \/ world.files = 0
    \/ LacksTargetDependency(world.manifest)

\* C27: a project that is inaccessible, has no fetchable file or has a
\* manifest without the target dependency is recorded in errors and is not
\* among the analyzed projects.
C27_HardFailureRecorded ==
    (output # NotCalled /\ HardFailure(input.project)) =>
        /\ Len(output.errors) = 1
        /\ output.results = <<>>

----------------------------------------------------------------------------
(* GitHubClient.filterValidNextJSProjects(projects, maxConcurrent), batch  *)
(* by batch and promise by promise. A project is its index in the input.   *)

MaxCandidates == 4
MaxBatchSize == 2

\* what validateNextJSProject finds of a candidate
CandidateManifests ==
    {Manifest("parsed", {"next"}, {}), Manifest("parsed", {}, {}),
     Manifest("notfound", {}, {})}

FilterInputs ==
    {[projects |-> [i \in 1..n |-> i], maxConcurrent |-> b] :
        n \in 0..MaxCandidates, b \in (1..MaxBatchSize) \cup {MaxConcurrent}}

\* projects.slice(i, i + batchSize)
BatchAt(i) ==
    SubSeq(input.projects, i + 1, Min(i + input.maxConcurrent, Len(input.projects)))

ValidIn(settled, project) == project \in DOMAIN settled /\ settled[project].isValid

\* the pause taken after every batch, the last one included
BatchRemainsAlways(i) == TRUE

\* if (i + batchSize < projects.length)
BatchRemains(i) == i + input.maxConcurrent < Len(input.projects)

\* results.filter((p) => p !== null) of the batch, in batch order
FilterValid(batch, settled) ==
    SelectSeq(batch, LAMBDA project : ValidIn(settled, project))

\* the for loop at its condition, i being the index and valid the
\* validProjects: batch.map starts one validation per project of the batch;
\* past the loop the call returns validProjects
BatchLoop(i, valid) ==
    /\ bi' = i
    /\ IF i < Len(input.projects)
       THEN /\ bcalls' = bcalls \o BatchAt(i)
            /\ bpc' = "validating"
            /\ UNCHANGED output
       ELSE /\ output' = Resolved(valid)
            /\ bpc' = "returned"
            /\ UNCHANGED bcalls

\* filterValidNextJSProjects is called and runs to await Promise.all
FilterValidCall ==
    /\ bpc = "idle"
    /\ BatchLoop(0, bvalid)
    /\ UNCHANGED <<input, bsettled, bvalid, bsleeps>>

\* validateNextJSProject resolves for one project of the batch
ValidationResolves(project, manifest) ==
    /\ bpc = "validating"
    /\ project \in Range(BatchAt(bi))
    /\ project \notin DOMAIN bsettled
    /\ bsettled' = [q \in DOMAIN bsettled \cup {project} |->
                       IF q = project THEN validateNextJSProject(manifest)
                       ELSE bsettled[q]]
    /\ UNCHANGED <<input, output, bpc, bi, bcalls, bvalid, bsleeps>>

\* Promise.all resolves: push the valid projects, then sleep(2000) if a
\* batch remains, else i += batchSize and the loop condition
PromiseAllResolves ==
    /\ bpc = "validating"
    /\ \A project \in Range(BatchAt(bi)) : project \in DOMAIN bsettled
    /\ bvalid' = bvalid \o FilterValid(BatchAt(bi), bsettled)
    /\ IF BatchRemains(bi)
       THEN /\ bsleeps' = bsleeps + 1
            /\ bpc' = "sleeping"
            /\ UNCHANGED <<output, bi, bcalls>>
       ELSE /\ BatchLoop(bi + input.maxConcurrent, bvalid')
            /\ UNCHANGED bsleeps
    /\ UNCHANGED <<input, bsettled>>

\* sleep(2000) elapses: i += batchSize and the loop condition
BatchSleepElapses ==
    /\ bpc = "sleeping"
    /\ BatchLoop(bi + input.maxConcurrent, bvalid)
    /\ UNCHANGED <<input, bsettled, bvalid, bsleeps>>

InitBatch ==
    /\ input \in FilterInputs
    /\ output = NotCalled
    /\ bpc = "idle" /\ bi = 0 /\ bcalls = <<>> /\ bsettled = EmptyHist
    /\ bvalid = <<>> /\ bsleeps = 0
    /\ IdleFiles /\ IdleSelect /\ IdleMain /\ IdleAgg /\ IdleCustom /\ IdleRetry
    /\ IdleTemp

NextBatch ==
    \/ FilterValidCall
          /\ UNCHANGED <<fileVars, selVars, mainVars, aggVars, customVars, retryVars, tempVars>>
    \/ \E project \in 1..MaxCandidates, manifest \in CandidateManifests :
          ValidationResolves(project, manifest)
             /\ UNCHANGED <<fileVars, selVars, mainVars, aggVars, customVars, retryVars, tempVars>>
    \/ PromiseAllResolves
          /\ UNCHANGED <<fileVars, selVars, mainVars, aggVars, customVars, retryVars, tempVars>>
    \/ BatchSleepElapses
          /\ UNCHANGED <<fileVars, selVars, mainVars, aggVars, customVars, retryVars, tempVars>>

SpecBatch == InitBatch /\ [][NextBatch]_vars

----------------------------------------------------------------------------
(* C30 *)

\* validations called and not yet settled
OutstandingValidations == {project \in Range(bcalls) : project \notin DOMAIN bsettled}

\* ceil(n / b)
BatchCount(n, b) == (n + b - 1) \div b

----------------------------------------------------------------------------
(* SpecLive: analyzeFiles called with any concurrency that validateConfig  *)
(* lets through, the sleep timer firing and every analysis settling        *)

\* if (config.analysis.concurrency <= 0) throw ...: false when it is NaN
ConcurrencyRejected(c) == c # NaNConcurrency /\ c <= 0

\* what parseInt of the --concurrency option can give and validateConfig
\* then accepts
ValidConcurrencies ==
    {c \in (0..MaxConcurrency) \cup {NaNConcurrency} : ~ConcurrencyRejected(c)}

InitLive ==
    /\ \E n \in 0..MaxFiles : files = [i \in 1..n |-> i]
    /\ concurrency \in ValidConcurrencies
    /\ queue = <<>> /\ running = {} /\ results = <<>> /\ executing = {}
    /\ rpc = "idle"
    /\ analysis = NoAnalysis /\ statistics = NoStats
    /\ IdleSelect /\ IdleMain /\ IdleAgg /\ IdlePure /\ IdleCustom /\ IdleExtra

\* the analysis of file settles: the checker returns or throws, or the
\* timeout fires
AnalysisSettles(file) ==
    \/ \E cr \in CompatibilityResults : CheckerReturns(file, cr)
    \/ CheckerThrows(file)
    \/ AnalysisTimeout(file)

Rest == <<selVars, mainVars, aggVars, pureVars, customVars, extraVars>>

Fairness ==
    /\ WF_vars(AnalyzeFilesCall /\ UNCHANGED Rest)
    /\ WF_vars(Wake /\ UNCHANGED Rest)
    /\ \A file \in 1..MaxFiles : WF_vars(AnalysisSettles(file) /\ UNCHANGED Rest)

SpecLive == InitLive /\ [][Next]_vars /\ Fairness

----------------------------------------------------------------------------
(* C29 *)

\* C29: for any file list and any concurrency that passes validateConfig,
\* analyzeFiles eventually returns when every analysis settles, and for an
\* empty file list it returns at once, without a sleep.
C29_AnalyzeFilesTerminates ==
    /\ <>(rpc \in {"returned", "reported"})
    /\ [][(rpc = "idle" /\ files = <<>>) => rpc' = "returned"]_vars

----------------------------------------------------------------------------
(* The temp directories of concurrent analyses: analyzeFiles starts files  *)
(* pass by pass; runESGuard names the directory temp_${Date.now()} when it *)
(* is called and performAnalysis then works in it step by step. A started  *)
(* file is its index in the input; file names are pairwise different.      *)

MaxTempFiles == 3

TempInputs == [files : 0..MaxTempFiles, concurrency : 1..MaxTempFiles]

InFlightSteps == {"mkdir", "write", "check", "rm", "cleanup"}

\* the started files whose processFile has not finished
InFlight == {file \in DOMAIN tpc : tpc[file] \in InFlightSteps}

\* Date.now() of each of k calls made one after the other from time t on:
\* the clock may or may not have advanced from one call to the next
ClockReadings(t, k) ==
    {r \in [1..k -> t..(t + k)] :
        /\ k > 0 => r[1] = t
        /\ \A j \in 2..k : r[j] \in {r[j - 1], r[j - 1] + 1}}

\* the files the next pass of the start loop takes from the queue
FreeSlots ==
    Min(input.concurrency - Cardinality(InFlight), input.files - Len(tpc))

\* one pass of the start loop of analyzeFiles: every free slot is filled,
\* each runESGuard reading the clock for its tempDir and calling
\* performAnalysis, which runs to its first await
StartPass(readings) ==
    LET k == Len(readings)
    IN /\ k > 0
       /\ k = FreeSlots
       /\ tdir' = tdir \o readings
       /\ tpc' = tpc \o [j \in 1..k |-> "mkdir"]
       /\ tscanned' = tscanned \o [j \in 1..k |-> {}]
       /\ tnow' = readings[k] + 1
       /\ UNCHANGED <<input, output, tfs>>

SetStep(file, step) == tpc' = [tpc EXCEPT ![file] = step]

\* fs.mkdir(tempDir, { recursive: true }): no error if it exists already
MkdirTemp(file) ==
    /\ file \in DOMAIN tpc /\ tpc[file] = "mkdir"
    /\ tfs' = [d \in DOMAIN tfs \cup {tdir[file]} |->
                  IF d \in DOMAIN tfs THEN tfs[d] ELSE {}]
    /\ SetStep(file, "write")
    /\ UNCHANGED <<input, output, tnow, tdir, tscanned>>

\* fs.writeFile(tempFilePath, content): rejects if the directory is gone
WriteTempFile(file) ==
    /\ file \in DOMAIN tpc /\ tpc[file] = "write"
    /\ IF tdir[file] \in DOMAIN tfs
       THEN /\ tfs' = [tfs EXCEPT ![tdir[file]] = @ \cup {file}]
            /\ SetStep(file, "check")
       ELSE /\ SetStep(file, "cleanup")
            /\ UNCHANGED tfs
    /\ UNCHANGED <<input, output, tnow, tdir, tscanned>>

\* checkCompatibility({...defaultConfig, dir: tempDir}) scans what the
\* directory holds; it rejects if the directory is gone
CheckTempDir(file) ==
    /\ file \in DOMAIN tpc /\ tpc[file] = "check"
    /\ IF tdir[file] \in DOMAIN tfs
       THEN /\ tscanned' = [tscanned EXCEPT ![file] = tfs[tdir[file]]]
            /\ SetStep(file, "rm")
       ELSE /\ SetStep(file, "cleanup")
            /\ UNCHANGED tscanned
    /\ UNCHANGED <<input, output, tnow, tdir, tfs>>

\* fs.rm(tempDir, { recursive: true, force: true }) after the scan, or in
\* the catch block
RemoveTemp(file) ==
    /\ file \in DOMAIN tpc /\ tpc[file] \in {"rm", "cleanup"}
    /\ tfs' = [d \in DOMAIN tfs \ {tdir[file]} |-> tfs[d]]
    /\ SetStep(file, IF tpc[file] = "rm" THEN "done" ELSE "failed")
    /\ UNCHANGED <<input, output, tnow, tdir, tscanned>>

InitTemp ==
    /\ input \in TempInputs
    /\ output = NotCalled
    /\ tnow = 0 /\ tdir = <<>> /\ tpc = <<>> /\ tfs = EmptyHist /\ tscanned = <<>>
    /\ IdleFiles /\ IdleSelect /\ IdleMain /\ IdleAgg /\ IdleCustom
    /\ IdleRetry /\ IdleBatch

TempRest == <<fileVars, selVars, mainVars, aggVars, customVars, retryVars, batchVars>>

NextTemp ==
    \/ \E readings \in ClockReadings(tnow, FreeSlots) :
          StartPass(readings) /\ UNCHANGED TempRest
    \/ \E file \in 1..MaxTempFiles : MkdirTemp(file) /\ UNCHANGED TempRest
    \/ \E file \in 1..MaxTempFiles : WriteTempFile(file) /\ UNCHANGED TempRest
    \/ \E file \in 1..MaxTempFiles : CheckTempDir(file) /\ UNCHANGED TempRest
    \/ \E file \in 1..MaxTempFiles : RemoveTemp(file) /\ UNCHANGED TempRest

SpecTemp == InitTemp /\ [][NextTemp]_vars

----------------------------------------------------------------------------
(* C28 *)

\* C28: analyses in flight at the same time use pairwise different temp
\* directories; the checker call of a file scans that file only; and the
\* input a file has written is still there when its checker call runs.
C28_DisjointTempDirs ==
    /\ \A f, g \in InFlight : f # g => tdir[f] # tdir[g]
    /\ \A f \in DOMAIN tpc : tpc[f] \in {"rm", "done"} => tscanned[f] = {f}
    /\ \A f \in DOMAIN tpc :
          tpc[f] = "check" => (tdir[f] \in DOMAIN tfs /\ f \in tfs[tdir[f]])

====
